---- MODULE Spec2Model ----
(***************************************************************************)
(* State-machine model of the dashboard backend's data pipeline:           *)
(*   - DataSyncService  (backend/app/services/data_sync_service.py)        *)
(*   - S3IngestionService (backend/app/services/s3_ingestion_service.py)   *)
(*   - ClientFeedbackService (backend/app/services/client_feedback_service)*)
(*   - DatabaseService.get_session (backend/app/services/db_service.py)    *)
(*                                                                         *)
(* The relational store is the record db (committed state) together with   *)
(* tx, the view of the one open SQLAlchemy session: statements change tx,  *)
(* session.commit() copies tx to db, session.rollback() copies db to tx.   *)
(* Tables with an autoincrement key are bags of rows (the key carries no   *)
(* information); work_item is a function from its primary key.             *)
(***************************************************************************)
EXTENDS Integers, Sequences, FiniteSets, Bags, TLC

VARIABLES
    db,                        \* committed tables of the relational store
    tx,                        \* the open session's view (= db when none is open)
    pc,                        \* position of the running operation
    op,                        \* top-level operation in progress
    outcome,                   \* what the last finished top-level operation gave its caller
    recon_status,              \* how the last _update_is_delivered_status call ended
    delivered_colab_link_ids,  \* local of _update_is_delivered_status
    delivered_task_ids,        \* local of _update_is_delivered_status
    sync_type,                 \* argument of sync_all_tables
    results,                   \* local of sync_all_tables: table name -> bool
    cur,                       \* index into sync_order of the running table sync
    log_id,                    \* local of a table sync: id of its DataSyncLog row
    data,                      \* local of a table sync: the materialized rows
    i,                         \* local of a table sync: offset of the next batch
    err,                       \* the exception caught by a table sync
    work_items,                \* argument of insert_work_items
    df_len,                    \* number of rows of the feedback frame
    row_no,                    \* rows of the frame iterated so far
    row,                       \* the frame row of the current iteration
    updated,                   \* counter of _update_work_items
    not_found,                 \* counter of _update_work_items
    errors,                    \* counter of _update_work_items
    enabled_dimensions,        \* warehouse: names of the enabled quality dimensions
    allowed_quality_dimensions_cache,  \* PostgresQueryService attribute
    agg_fn,                    \* the aggregation function being applied
    group_key,                 \* argument of the aggregation function
    query_results,             \* argument `results` of the aggregation function
    row_index,                 \* rows of query_results iterated so far
    allowed_dimensions,        \* the allow-list each iterated row was checked against
    grouped_data,              \* local of the aggregation function
    specific_folder,           \* argument of ingest_from_s3
    folders,                   \* local of ingest_from_s3: the folders to process
    folder_no,                 \* folders of `folders` entered so far
    json_files_info,           \* local of ingest_from_s3: the files of the folder
    file_no,                   \* files of json_files_info iterated so far
    json_data,                 \* local of ingest_from_s3: the manifest last read
    total_files_processed,     \* counter of ingest_from_s3
    total_work_items,          \* counter of ingest_from_s3
    ingest_errors,             \* local `errors` of ingest_from_s3
    sync_log_id,               \* local of ingest_from_s3: id of its DataSyncLog row
    filters,                   \* argument of the aggregation getter last called
    runs,                      \* the locals of each of two overlapping table syncs
    observed                   \* what a concurrent session last read

vars == <<db, tx, pc, op, outcome, recon_status,
          delivered_colab_link_ids, delivered_task_ids,
          sync_type, results, cur, log_id, data, i, err,
          work_items, df_len, row_no, row, updated, not_found, errors,
          enabled_dimensions, allowed_quality_dimensions_cache, agg_fn, group_key,
          query_results, row_index, allowed_dimensions, grouped_data,
          specific_folder, folders, folder_no, json_files_info, file_no, json_data,
          total_files_processed, total_work_items, ingest_errors, sync_log_id,
          filters, runs, observed>>

reconLocals == <<delivered_colab_link_ids, delivered_task_ids>>
syncLocals == <<sync_type, results, cur, log_id, data, i, err>>
feedbackLocals == <<df_len, row_no, row, updated, not_found, errors>>
aggLocals == <<enabled_dimensions, allowed_quality_dimensions_cache, agg_fn,
               group_key, query_results, row_index, allowed_dimensions,
               grouped_data>>
ingestLocals == <<specific_folder, folders, folder_no, json_files_info, file_no,
                  json_data, total_files_processed, total_work_items, ingest_errors,
                  sync_log_id>>
sessionLocals == <<filters, runs, observed>>
otherLocals == <<aggLocals, ingestLocals, sessionLocals>>
itemLocals == <<work_items, feedbackLocals, otherLocals>>

(***************************************************************************)
(* Bounds of the model.                                                    *)
(***************************************************************************)
MaxTasks == 2          \* task ids are 1..MaxTasks
MaxReviewRows == 2     \* review_detail rows in an initial store

(***************************************************************************)
(* Values.                                                                 *)
(***************************************************************************)
TaskIds == 1..MaxTasks
WorkItemIds == {"w1", "w2"}
WorkItemTaskIds == {"a", "b"}
Flags == {"True", "False"}
NullLink == <<>>
NoOutcome == [op |-> "none", kind |-> "none"]
NoNumber == -1

\* colab_link = f"https://rlhf-v3.turing.com/prompt/{task_id}"
colab_link_of(task_id) == <<"https://rlhf-v3.turing.com/prompt/", task_id>>

TaskLinks == {NullLink} \cup {colab_link_of(t) : t \in WorkItemTaskIds}

(***************************************************************************)
(* Bags of rows.                                                           *)
(***************************************************************************)
RECURSIVE SumCopies(_, _)
SumCopies(S, B) ==
    IF S = {} THEN 0
    ELSE LET x == CHOOSE y \in S : TRUE
         IN  B[x] + SumCopies(S \ {x}, B)

\* the rows of B, each changed by F (an UPDATE without a key change)
BagMap(B, F(_)) ==
    LET S == BagToSet(B)
        T == {F(x) : x \in S}
    IN  [y \in T |-> SumCopies({x \in S : F(x) = y}, B)]

BagSize(B) == SumCopies(BagToSet(B), B)

(***************************************************************************)
(* _update_is_delivered_status: the statements.                            *)
(***************************************************************************)
\* session.query(WorkItem.colab_link).distinct().all(), falsy links dropped
WorkItemLinks(work_item) ==
    {work_item[w].colab_link : w \in DOMAIN work_item} \ {NullLink}

\* mutant: the clear-all statement is left out
ClearTaskFlags_skipped(task) == task

\* update(Task).values(is_delivered='False')
ClearTaskFlags(task) ==
    BagMap(task, LAMBDA r : [r EXCEPT !.is_delivered = "False"])

\* update(Task).where(Task.colab_link.in_(links)).values(is_delivered='True')
SetTaskDelivered(task, links) ==
    BagMap(task, LAMBDA r : IF r.colab_link \in links
                            THEN [r EXCEPT !.is_delivered = "True"]
                            ELSE r)

\* mutant: the ids are those of the tasks flagged in the committed store
QueryDeliveredTaskIds_stale(task, links) ==
    {r.id : r \in {x \in BagToSet(db.task) : x.is_delivered = "True"}}

\* session.query(Task.id).filter(Task.colab_link.in_(links)).all()
QueryDeliveredTaskIds(task, links) ==
    {r.id : r \in {x \in BagToSet(task) : x.colab_link \in links}}

\* update(ReviewDetail).values(is_delivered='False')
ClearReviewDetailFlags(review_detail) ==
    BagMap(review_detail, LAMBDA r : [r EXCEPT !.is_delivered = "False"])

\* mutant: the ReviewDetail rows of delivered tasks keep the cleared flag
SetReviewDetailDelivered_skipped(review_detail, ids) == review_detail

\* update(ReviewDetail).where(conversation_id.in_(ids)).values(is_delivered='True')
SetReviewDetailDelivered(review_detail, ids) ==
    BagMap(review_detail, LAMBDA r : IF r.conversation_id \in ids
                                     THEN [r EXCEPT !.is_delivered = "True"]
                                     ELSE r)

\* mutant: every statement is committed as it is executed
AfterStatement_autocommit(committed, session) == session

\* sessionmaker(autocommit=False): a statement executed in a session changes
\* the committed store only at the next commit
AfterStatement(committed, session) == committed

\* mutant: a commit persists nothing
Commit_discarded(session) == db

\* session.commit(): the session's view becomes the committed store
Commit(session) == session

\* DatabaseService.get_session, except branch: session.rollback()
Rollback(committed, session) == committed

UdsPcs == {"uds_query_links", "uds_clear_task", "uds_set_task",
           "uds_clear_rd", "uds_set_rd", "uds_commit"}

\* with get_session() as session: ... query(WorkItem.colab_link).distinct()
uds_query_links ==
    /\ pc = "uds_query_links"
    /\ delivered_colab_link_ids' = WorkItemLinks(tx.work_item)
    /\ pc' = "uds_clear_task"
    /\ UNCHANGED <<db, tx, op, outcome, recon_status, delivered_task_ids, syncLocals, itemLocals>>

uds_clear_task ==
    /\ pc = "uds_clear_task"
    /\ tx' = [tx EXCEPT !.task = ClearTaskFlags(@)]
    /\ db' = AfterStatement(db, tx')
    /\ pc' = "uds_set_task"
    /\ UNCHANGED <<op, outcome, recon_status, reconLocals, syncLocals, itemLocals>>

uds_set_task ==
    /\ pc = "uds_set_task"
    /\ IF delivered_colab_link_ids # {}
       THEN /\ tx' = [tx EXCEPT !.task = SetTaskDelivered(@, delivered_colab_link_ids)]
            /\ delivered_task_ids' =
                   QueryDeliveredTaskIds(tx'.task, delivered_colab_link_ids)
       ELSE /\ delivered_task_ids' = {}
            /\ UNCHANGED tx
    /\ db' = AfterStatement(db, tx')
    /\ pc' = "uds_clear_rd"
    /\ UNCHANGED <<op, outcome, recon_status, delivered_colab_link_ids, syncLocals, itemLocals>>

uds_clear_rd ==
    /\ pc = "uds_clear_rd"
    /\ tx' = [tx EXCEPT !.review_detail = ClearReviewDetailFlags(@)]
    /\ db' = AfterStatement(db, tx')
    /\ pc' = "uds_set_rd"
    /\ UNCHANGED <<op, outcome, recon_status, reconLocals, syncLocals, itemLocals>>

uds_set_rd ==
    /\ pc = "uds_set_rd"
    /\ IF delivered_task_ids # {}
       THEN tx' = [tx EXCEPT !.review_detail =
                                  SetReviewDetailDelivered(@, delivered_task_ids)]
       ELSE UNCHANGED tx
    /\ db' = AfterStatement(db, tx')
    /\ pc' = "uds_commit"
    /\ UNCHANGED <<op, outcome, recon_status, reconLocals, syncLocals, itemLocals>>

\* session.commit(), then the context manager's own commit and close
uds_commit ==
    /\ pc = "uds_commit"
    /\ db' = Commit(tx)
    /\ tx' = db'
    /\ recon_status' = "ok"
    /\ pc' = "uds_return"
    /\ delivered_colab_link_ids' = {}
    /\ delivered_task_ids' = {}
    /\ UNCHANGED <<op, outcome, syncLocals, itemLocals>>

\* any statement (or the commit) raises: get_session rolls back and re-raises,
\* the except clause of _update_is_delivered_status logs and re-raises
uds_raise ==
    /\ pc \in UdsPcs
    /\ tx' = Rollback(db, tx)
    /\ recon_status' = "raised"
    /\ pc' = "uds_return"
    /\ delivered_colab_link_ids' = {}
    /\ delivered_task_ids' = {}
    /\ UNCHANGED <<db, op, outcome, syncLocals, itemLocals>>

update_is_delivered_status ==
    \/ uds_query_links
    \/ uds_clear_task
    \/ uds_set_task
    \/ uds_clear_rd
    \/ uds_set_rd
    \/ uds_commit
    \/ uds_raise

(***************************************************************************)
(* The reconciliation on its own, from any store the tables can hold.      *)
(***************************************************************************)
ReconcileCall ==
    /\ pc = "idle"
    /\ op' = "reconcile"
    /\ pc' = "uds_query_links"
    /\ tx' = db
    /\ recon_status' = "none"
    /\ UNCHANGED <<db, outcome, reconLocals, syncLocals, itemLocals>>

ReconcileReturn ==
    /\ pc = "uds_return"
    /\ op = "reconcile"
    /\ outcome' = [op |-> "reconcile",
                   kind |-> IF recon_status = "ok" THEN "returned" ELSE "raised"]
    /\ op' = "none"
    /\ pc' = "idle"
    /\ UNCHANGED <<db, tx, recon_status, reconLocals, syncLocals, itemLocals>>

InitSyncLocals ==
    /\ sync_type = "none"
    /\ results = <<>>
    /\ cur = 0
    /\ log_id = 0
    /\ data = <<>>
    /\ i = 0
    /\ err = "none"

EmptyStore ==
    [contributor |-> EmptyBag, task_reviewed_info |-> EmptyBag,
     task |-> EmptyBag, review_detail |-> EmptyBag,
     work_item |-> <<>>, data_sync_log |-> <<>>]

\* task tables: primary key id, ids 1..n
TaskRowsOf(n, f) ==
    SetToBag({[id |-> k, colab_link |-> f[k].colab_link,
               is_delivered |-> f[k].is_delivered] : k \in 1..n})

TaskTables ==
    UNION {{TaskRowsOf(n, f) :
               f \in [1..n -> [colab_link : TaskLinks, is_delivered : Flags]]} :
           n \in 0..MaxTasks}

ReviewDetailRows == [conversation_id : TaskIds, is_delivered : Flags]

ReviewDetailTables ==
    {[r \in {x \in ReviewDetailRows : c[x] > 0} |-> c[r]] :
        c \in {d \in [ReviewDetailRows -> 0..MaxReviewRows] :
                  SumCopies(ReviewDetailRows, d) <= MaxReviewRows}}

(***************************************************************************)
(* Texts are sequences of tokens: a token is a word or the blank " ", so   *)
(* that str.strip and str.upper are computed and not assumed.  Python's    *)
(* None is the value None below; the text 'None' is the string "None".     *)
(***************************************************************************)
None == "<null>"
Whitespace == {" "}
Text(word) == <<word>>

RECURSIVE lstrip(_)
lstrip(s) == IF s # <<>> /\ Head(s) \in Whitespace THEN lstrip(Tail(s)) ELSE s

RECURSIVE rstrip(_)
rstrip(s) ==
    IF s # <<>> /\ s[Len(s)] \in Whitespace
    THEN rstrip(SubSeq(s, 1, Len(s) - 1))
    ELSE s

strip(s) == rstrip(lstrip(s))

upper_word(word) ==
    CASE word \in {"rejected", "Rejected", "REJECTED"} -> "REJECTED"
      [] word \in {"approved", "Approved", "APPROVED"} -> "APPROVED"
      [] word \in {"approve", "Approve", "APPROVE"} -> "APPROVE"
      [] word = "Needs" -> "NEEDS"
      [] word = "Review" -> "REVIEW"
      [] word = "Pending" -> "PENDING"
      [] OTHER -> word

\* mutant: the verdict is compared as it was written
upper_unchanged(s) == s

upper(s) == [k \in DOMAIN s |-> upper_word(s[k])]

NoRow ==
    [work_item_id |-> <<>>, verdict |-> <<>>,
     task_level_feedback |-> None, error_categories |-> None]

\* self._allowed_quality_dimensions_cache = None; a loaded cache is <<names>>
NotCached == <<>>

InitAggCall ==
    /\ agg_fn = "none"
    /\ group_key = None
    /\ query_results = <<>>
    /\ row_index = 0
    /\ allowed_dimensions = <<>>
    /\ grouped_data = <<>>

InitAggLocals ==
    /\ enabled_dimensions = {}
    /\ allowed_quality_dimensions_cache = NotCached
    /\ InitAggCall

InitIngestLocals ==
    /\ specific_folder = NoNumber
    /\ folders = <<>>
    /\ folder_no = 0
    /\ json_files_info = <<>>
    /\ file_no = 0
    /\ json_data = <<>>
    /\ total_files_processed = 0
    /\ total_work_items = 0
    /\ ingest_errors = <<>>
    /\ sync_log_id = 0

\* the filters dict of routers/stats.py with every entry None
NoFilters == [domain |-> None, quality_dimension |-> None, min_task_count |-> NoNumber]

InitSessionLocals ==
    /\ filters = NoFilters
    /\ runs = <<>>
    /\ observed = <<>>

InitOtherLocals == InitAggLocals /\ InitIngestLocals /\ InitSessionLocals

InitItemLocals ==
    /\ work_items = <<>>
    /\ df_len = 0
    /\ row_no = 0
    /\ row = NoRow
    /\ updated = 0
    /\ not_found = 0
    /\ errors = 0
    /\ InitOtherLocals

\* mutant: an inserted row takes the status of the client as its own
InsertedRow_pending(work_item_data) ==
    [work_item_id |-> work_item_data.work_item_id,
     task_id |-> work_item_data.task_id,
     annotator_id |-> work_item_data.annotator_id,
     colab_link |-> work_item_data.colab_link,
     ingestion_date |-> work_item_data.ingestion_date,
     delivery_date |-> work_item_data.delivery_date,
     json_filename |-> work_item_data.json_filename,
     turing_status |-> "Pending",
     client_status |-> Text("Pending"),
     task_level_feedback |-> None,
     error_categories |-> None]

\* the row an INSERT of work_item_data creates: the status columns take the
\* defaults of the WorkItem model, the feedback columns are NULL
InsertedRow(work_item_data) ==
    [work_item_id |-> work_item_data.work_item_id,
     task_id |-> work_item_data.task_id,
     annotator_id |-> work_item_data.annotator_id,
     colab_link |-> work_item_data.colab_link,
     ingestion_date |-> work_item_data.ingestion_date,
     delivery_date |-> work_item_data.delivery_date,
     json_filename |-> work_item_data.json_filename,
     turing_status |-> "Delivered",
     client_status |-> Text("Pending"),
     task_level_feedback |-> None,
     error_categories |-> None]

WorkItemRow(w, t) ==
    InsertedRow([work_item_id |-> w, task_id |-> t, annotator_id |-> 1,
                 colab_link |-> colab_link_of(t), ingestion_date |-> 1,
                 delivery_date |-> 1, json_filename |-> 1])

\* work_item tables, up to a renaming of the work items and of the task ids
WorkItemTables ==
    UNION {{[w \in S |-> WorkItemRow(w, f[w])] :
               f \in {g \in [S -> WorkItemTaskIds] : "w1" \in S => g["w1"] = "a"}} :
           S \in {{}, {"w1"}, WorkItemIds}}

InitRecon ==
    /\ db \in {[EmptyStore EXCEPT !.task = t, !.review_detail = r, !.work_item = w] :
                  t \in TaskTables, r \in ReviewDetailTables, w \in WorkItemTables}
    /\ tx = db
    /\ pc = "idle"
    /\ op = "none"
    /\ outcome = NoOutcome
    /\ recon_status = "none"
    /\ delivered_colab_link_ids = {}
    /\ delivered_task_ids = {}
    /\ InitSyncLocals
    /\ InitItemLocals

NextRecon ==
    \/ ReconcileCall
    \/ update_is_delivered_status
    \/ ReconcileReturn

SpecRecon == InitRecon /\ [][NextRecon]_vars

(***************************************************************************)
(* Properties of Status Reconciliation.                                    *)
(***************************************************************************)
TaskRows(d) == BagToSet(d.task)
ReviewRows(d) == BagToSet(d.review_detail)

\* the flags of store d are the ones the work items of d call for
Reconciled(d) ==
    /\ \A t \in TaskRows(d) :
          /\ t.is_delivered \in {"True", "False"}
          /\ t.is_delivered = "True" <=>
                \E w \in DOMAIN d.work_item :
                    /\ d.work_item[w].colab_link # NullLink
                    /\ d.work_item[w].colab_link = t.colab_link
    /\ \A r \in ReviewRows(d) :
          /\ r.is_delivered \in {"True", "False"}
          /\ r.is_delivered = "True" <=>
                \E t \in TaskRows(d) :
                    t.id = r.conversation_id /\ t.is_delivered = "True"

ReconCompleted == pc = "uds_return" /\ recon_status = "ok"

\* C1: when _update_is_delivered_status has completed, whatever the flags
\* were before, a Task row is flagged "True" exactly when its collaboration
\* link is the non-null link of some WorkItem, and a ReviewDetail row exactly
\* when its task id is the id of a Task now flagged "True"; every other flag
\* is "False".
C1_ReconcilePostcondition == ReconCompleted => Reconciled(db)

\* a completed reconciliation with delivered and undelivered rows in both tables
C1_Witness ==
    /\ ReconCompleted
    /\ \E t \in TaskRows(db) : t.is_delivered = "True"
    /\ \E t \in TaskRows(db) : t.is_delivered = "False"
    /\ \E r \in ReviewRows(db) : r.is_delivered = "True"
    /\ \E r \in ReviewRows(db) : r.is_delivered = "False"

LastReconcileReturned == outcome = [op |-> "reconcile", kind |-> "returned"]

\* C5: a reconciliation that runs right after a completed one, with no write
\* to WorkItem, Task or ReviewDetail in between, commits the flags the first
\* one left: its commit changes no Task and no ReviewDetail row.
C5_ReconcileIdempotent ==
    [][(pc = "uds_commit" /\ recon_status' = "ok" /\ LastReconcileReturned)
         => (db'.task = db.task /\ db'.review_detail = db.review_detail)]_vars

\* the second of two reconciliations in a row has completed, flags set
C5_Witness ==
    /\ ReconCompleted
    /\ LastReconcileReturned
    /\ \E t \in TaskRows(db) : t.is_delivered = "True"
    /\ \E r \in ReviewRows(db) : r.is_delivered = "True"

\* C9: no step of a reconciliation other than its final commit changes the
\* committed store, and a reconciliation that fails leaves the session with
\* nothing pending: the committed Task and ReviewDetail flags are those from
\* before it started, never a partly updated set.
C9_ReconcileRollback ==
    [][(pc \in UdsPcs /\ ~(pc = "uds_commit" /\ recon_status' = "ok"))
         => (db' = db /\ (recon_status' = "raised" => tx' = db))]_vars

\* a reconciliation has failed and left flags that it would have changed
C9_Witness ==
    /\ pc = "uds_return"
    /\ recon_status = "raised"
    /\ ~Reconciled(db)
    /\ tx = db


(***************************************************************************)
(* sync_all_tables and the four table syncs.                               *)
(***************************************************************************)
MaxRows == 2           \* rows of a warehouse result set
BatchSize == 1         \* stands for batch_size = 5000, scaled to MaxRows
MaxLogRows == 4        \* rows the data_sync_log table holds

ProjectStartDay == 0   \* settings.project_start_date, day 0 of the calendar

\* mutant: task is synced before the lookup table it depends on
sync_order_swapped == <<"contributor", "task", "task_reviewed_info", "review_detail">>

sync_order == <<"contributor", "task_reviewed_info", "task", "review_detail">>
SyncTypes == {"initial", "scheduled", "manual"}

table_name == sync_order[cur]

\* columns of the declarative models: Model(**record) accepts these keywords
Columns(t) ==
    CASE t = "contributor" -> {"id", "name", "turing_email", "type", "status"}
      [] t = "task_reviewed_info" ->
            {"id", "r_id", "delivered_id", "rlhf_link", "is_delivered", "status",
             "task_score", "updated_at", "name", "annotation_date"}
      [] t = "task" ->
            {"id", "created_at", "updated_at", "statement", "status", "project_id",
             "batch_id", "current_user_id", "colab_link", "week_number",
             "is_delivered", "domain"}
      [] t = "review_detail" ->
            {"id", "quality_dimension_id", "domain", "human_role_id", "review_id",
             "reviewer_id", "conversation_id", "is_delivered", "name",
             "score_text", "score", "task_score", "updated_at"}

\* tables whose primary key comes with the rows (no autoincrement)
KeyedTables == {"contributor", "task"}

\* a datetime is <<n>>, n the ticks of the clock since midnight of calendar
\* day 0; None is <<>>
TicksPerDay == 2
NoDate == <<>>
DateTime(day, ticks) == <<day * TicksPerDay + ticks>>

\* a text that may hold a date: "" (kind "empty"), 'YYYY-MM-DD' of a calendar
\* day (kind "date"), or something else (kind "other")
DateText(day) == [kind |-> "date", day |-> day]
project_start_date == DateText(ProjectStartDay)

\* datetime.strptime(text, "%Y-%m-%d"): midnight of the day; the flag tells
\* whether it raises ValueError
strptime(text) ==
    IF text.kind = "date" THEN [raised |-> FALSE, value |-> DateTime(text.day, 0)]
    ELSE [raised |-> TRUE, value |-> NoDate]

\* (task_dt - start_date).days: the whole days of the difference, rounded down
days(task_dt, start_date) == (task_dt[1] - start_date[1]) \div TicksPerDay

\* mutant: the week number is not raised to 1
calculate_week_number_unclamped(task_date, start_text) ==
    IF task_date = NoDate \/ start_text.kind = "empty" THEN NoNumber
    ELSE IF strptime(start_text).raised THEN NoNumber
    ELSE (days(task_date, strptime(start_text).value) \div 7) + 1

\* `if not task_date or not project_start_date: return None`; then
\* week_num = (days_diff // 7) + 1; return max(1, week_num); an exception
\* gives None
calculate_week_number(task_date, start_text) ==
    IF task_date = NoDate \/ start_text.kind = "empty" THEN NoNumber
    ELSE IF strptime(start_text).raised THEN NoNumber
    ELSE LET days_diff == days(task_date, strptime(start_text).value)
             week_num == (days_diff \div 7) + 1
         IN  IF week_num > 1 THEN week_num ELSE 1

\* sync_task: task_date = updated_at or created_at; the week number of the
\* row, None when it has neither date
week_number_of(record, start_text) ==
    LET task_date == IF record.updated_at # NoDate THEN record.updated_at
                     ELSE record.created_at
    IN  IF task_date # NoDate THEN calculate_week_number(task_date, start_text)
        ELSE NoNumber

\* the k-th row the warehouse returns for the query of table t
WarehouseRow(t, k) ==
    CASE t = "contributor" -> [id |-> k]
      [] t = "task_reviewed_info" ->
            [r_id |-> k, RLHF_Link |-> colab_link_of("a"), is_delivered |-> "False"]
      [] t = "task" ->
            [id |-> k, colab_link |-> colab_link_of("a"), is_delivered |-> "False",
             updated_at |-> DateTime(7 * (k - 1), 0), created_at |-> DateTime(0, 0),
             rework_count |-> 0]
      [] t = "review_detail" -> [conversation_id |-> k, is_delivered |-> "False"]

\* query_job.result(): n rows
WarehouseResult(t, n) == [k \in 1..n |-> WarehouseRow(t, k)]

\* row_dict = dict(row), with the per-table mapping
MaterializeRow(t, record) ==
    CASE t = "task_reviewed_info" ->
            [r_id |-> record.r_id, rlhf_link |-> record.RLHF_Link,
             is_delivered |-> record.is_delivered]
      [] t = "task" ->
            [id |-> record.id, colab_link |-> record.colab_link,
             is_delivered |-> record.is_delivered, updated_at |-> record.updated_at,
             rework_count |-> record.rework_count,
             week_number |-> week_number_of(record, project_start_date)]
      [] OTHER -> record

Materialize(t, rows) == [k \in DOMAIN rows |-> MaterializeRow(t, rows[k])]

SeqToBag(rows) ==
    LET S == {rows[k] : k \in DOMAIN rows}
    IN  [r \in S |-> Cardinality({k \in DOMAIN rows : rows[k] = r})]

\* mutant: the delete statement is left out
DeleteAll_skipped(table) == table

\* session.execute(delete(Model))
DeleteAll(table) == EmptyBag

\* mutant: the first batch holds every row
Batch_whole(rows, offset, size) == rows

\* batch = data[i:i + batch_size]
Batch(rows, offset, size) ==
    SubSeq(rows, offset + 1, IF offset + size < Len(rows) THEN offset + size
                             ELSE Len(rows))

\* objects = [Model(**record) for record in batch]: TypeError on a keyword
\* that is no attribute of the model
Constructible(t, batch) ==
    \A k \in DOMAIN batch : DOMAIN batch[k] \subseteq Columns(t)

\* a row of the batch repeats a primary key of the table or of the batch
KeyConflict(t, table, batch) ==
    /\ t \in KeyedTables
    /\ \/ \E k \in DOMAIN batch : \E r \in BagToSet(table) : r.id = batch[k].id
       \/ \E k, m \in DOMAIN batch : k # m /\ batch[k].id = batch[m].id

\* mutant: the saved batch takes the place of the rows of the table
BulkSave_replacing(table, batch) == SeqToBag(batch)

\* session.bulk_save_objects(objects)
BulkSave(table, batch) == table (+) SeqToBag(batch)

\* DataSyncLog(table_name, sync_started_at, sync_status='started', sync_type)
StartedLogRow(t, st) ==
    [table_name |-> t, sync_status |-> "started", sync_type |-> st]

\* log_entry.sync_completed_at / records_synced / sync_status / error_message
ClosedLogRow(started, records_synced, success, error_message) ==
    [table_name |-> started.table_name, sync_type |-> started.sync_type,
     sync_status |-> IF success THEN "completed" ELSE "failed",
     records_synced |-> records_synced, error_message |-> error_message]

\* log_sync_complete: the row with id log_id, when there is one, is closed
LogComplete(log, id, records_synced, success, error_message) ==
    IF id \in DOMAIN log
    THEN [log EXCEPT ![id] = ClosedLogRow(@, records_synced, success, error_message)]
    ELSE log

\* mutant: a failed table sync ends the loop over sync_order
NextTable_abort(k, success) == IF success THEN k + 1 ELSE Len(sync_order) + 1

\* for table_name, sync_func in sync_order: the loop goes on whatever the result
NextTable(k, success) == k + 1

sync_all_tables(st) ==
    /\ pc = "idle"
    /\ Len(db.data_sync_log) + Len(sync_order) <= MaxLogRows
    /\ op' = "sync_all"
    /\ sync_type' = st
    /\ results' = <<>>
    /\ cur' = 1
    /\ pc' = "st_log_start"
    /\ UNCHANGED <<db, tx, outcome, recon_status, reconLocals, log_id, data, i, err, itemLocals>>

\* log_sync_start: a session of its own; on an exception it returns 0
log_sync_start(fault) ==
    /\ pc = "st_log_start"
    /\ IF fault
       THEN /\ log_id' = 0
            /\ UNCHANGED db
       ELSE /\ db' = [db EXCEPT !.data_sync_log =
                                  Append(@, StartedLogRow(table_name, sync_type))]
            /\ log_id' = Len(db'.data_sync_log)
    /\ tx' = db'
    /\ pc' = "st_fetch"
    /\ UNCHANGED <<op, outcome, recon_status, reconLocals,
                   sync_type, results, cur, data, i, err, itemLocals>>

\* query_job = self.bq_client.query(query); results = query_job.result()
sync_fetch(n, fault) ==
    /\ pc = "st_fetch"
    /\ IF fault
       THEN /\ err' = "warehouse error"
            /\ pc' = "st_except"
            /\ UNCHANGED data
       ELSE /\ data' = Materialize(table_name, WarehouseResult(table_name, n))
            /\ pc' = "st_delete"
            /\ UNCHANGED err
    /\ UNCHANGED <<db, tx, op, outcome, recon_status, reconLocals,
                   sync_type, results, cur, log_id, i, itemLocals>>

\* with get_session() as session: session.execute(delete(Model)); session.commit()
sync_delete(fault) ==
    /\ pc = "st_delete"
    /\ IF fault
       THEN /\ tx' = Rollback(db, tx)
            /\ err' = "database error"
            /\ pc' = "st_except"
            /\ UNCHANGED db
       ELSE /\ tx' = [tx EXCEPT ![table_name] = DeleteAll(@)]
            /\ db' = Commit(tx')
            /\ pc' = IF table_name = "contributor" THEN "st_insert_all"
                     ELSE IF Len(data) = 0 THEN "st_complete" ELSE "st_insert"
            /\ UNCHANGED err
    /\ i' = 0
    /\ UNCHANGED <<op, outcome, recon_status, reconLocals,
                   sync_type, results, cur, log_id, data, itemLocals>>

\* one turn of the batch loop: build the objects, bulk_save_objects, commit
InsertAndCommit(batch, fault, next_pc) ==
    IF ~Constructible(table_name, batch)
    THEN /\ tx' = Rollback(db, tx)
         /\ err' = "TypeError"
         /\ pc' = "st_except"
         /\ UNCHANGED db
    ELSE IF KeyConflict(table_name, tx[table_name], batch)
    THEN /\ tx' = Rollback(db, tx)
         /\ err' = "IntegrityError"
         /\ pc' = "st_except"
         /\ UNCHANGED db
    ELSE IF fault
    THEN /\ tx' = Rollback(db, tx)
         /\ err' = "database error"
         /\ pc' = "st_except"
         /\ UNCHANGED db
    ELSE /\ tx' = [tx EXCEPT ![table_name] = BulkSave(@, batch)]
         /\ db' = Commit(tx')
         /\ pc' = next_pc
         /\ UNCHANGED err

\* for i in range(0, len(data), batch_size): ...
sync_insert_batch(fault) ==
    /\ pc = "st_insert"
    /\ i < Len(data)
    /\ i' = i + BatchSize
    /\ InsertAndCommit(Batch(data, i, BatchSize), fault,
                       IF i + BatchSize < Len(data) THEN "st_insert" ELSE "st_complete")
    /\ UNCHANGED <<op, outcome, recon_status, reconLocals,
                   sync_type, results, cur, log_id, data, itemLocals>>

\* sync_contributor: all rows in one bulk_save_objects and one commit
sync_insert_all(fault) ==
    /\ pc = "st_insert_all"
    /\ InsertAndCommit(data, fault, "st_complete")
    /\ UNCHANGED <<op, outcome, recon_status, reconLocals,
                   sync_type, results, cur, log_id, data, i, itemLocals>>

\* log_sync_complete(log_id, len(data), True); return True.  An exception in
\* log_sync_complete is logged there and goes no further.
sync_complete(fault) ==
    /\ pc = "st_complete"
    /\ db' = IF fault THEN db
             ELSE [db EXCEPT !.data_sync_log =
                                LogComplete(@, log_id, Len(data), TRUE, "none")]
    /\ tx' = db'
    /\ results' = (table_name :> TRUE) @@ results
    /\ pc' = "sa_next"
    /\ UNCHANGED <<op, outcome, recon_status, reconLocals,
                   sync_type, cur, log_id, data, i, err, itemLocals>>

\* except Exception as e: log_sync_complete(log_id, 0, False, str(e)); return False
sync_except(fault) ==
    /\ pc = "st_except"
    /\ db' = IF fault THEN db
             ELSE [db EXCEPT !.data_sync_log = LogComplete(@, log_id, 0, FALSE, err)]
    /\ tx' = db'
    /\ results' = (table_name :> FALSE) @@ results
    /\ pc' = "sa_next"
    /\ UNCHANGED <<op, outcome, recon_status, reconLocals,
                   sync_type, cur, log_id, data, i, err, itemLocals>>

\* results[table_name] = sync_func(sync_type) is done: the next table, or,
\* after the last one, the call of _update_is_delivered_status
sync_all_next ==
    /\ pc = "sa_next"
    /\ cur' = NextTable(cur, results[table_name])
    /\ IF cur' <= Len(sync_order)
       THEN /\ pc' = "st_log_start"
            /\ UNCHANGED recon_status
       ELSE /\ pc' = "uds_query_links"
            /\ recon_status' = "none"
    /\ log_id' = 0
    /\ data' = <<>>
    /\ i' = 0
    /\ err' = "none"
    /\ UNCHANGED <<db, tx, op, outcome, reconLocals, sync_type, results, itemLocals>>

\* except Exception as e: logger.error(...); ...; return results
sync_all_return ==
    /\ pc = "uds_return"
    /\ op = "sync_all"
    /\ outcome' = [op |-> "sync_all", kind |-> "returned", value |-> results]
    /\ op' = "none"
    /\ pc' = "idle"
    /\ UNCHANGED <<db, tx, recon_status, reconLocals, syncLocals, itemLocals>>

SyncPcs == {"st_log_start", "st_fetch", "st_delete", "st_insert", "st_insert_all",
            "st_complete", "st_except"}

\* the store left by earlier runs: n rows in each synced table, flags as a
\* reconciliation against the work item w1 left them
LoadedTable(t, n) ==
    LET rows == [k \in 1..n |->
                   IF t = "task"
                   THEN [id |-> k, colab_link |-> colab_link_of("a"),
                         is_delivered |-> "True"]
                   ELSE IF t = "review_detail"
                   THEN [conversation_id |-> k,
                         is_delivered |-> IF k = 1 THEN "True" ELSE "False"]
                   ELSE MaterializeRow(t, WarehouseRow(t, k))]
    IN  SeqToBag(rows)

LoadedStore(n) ==
    [contributor |-> LoadedTable("contributor", n),
     task_reviewed_info |-> LoadedTable("task_reviewed_info", n),
     task |-> LoadedTable("task", 1),
     review_detail |-> LoadedTable("review_detail", n),
     work_item |-> [w \in {"w1"} |-> WorkItemRow(w, "a")],
     data_sync_log |-> <<>>]

InitSync ==
    /\ db \in {EmptyStore} \cup {LoadedStore(n) : n \in 0..MaxRows}
    /\ tx = db
    /\ pc = "idle"
    /\ op = "none"
    /\ outcome = NoOutcome
    /\ recon_status = "none"
    /\ delivered_colab_link_ids = {}
    /\ delivered_task_ids = {}
    /\ InitSyncLocals
    /\ InitItemLocals

\* one run of sync_all_tables at a time; the writes of DataSyncLog rows succeed
\* (a failure to write one is swallowed by log_sync_start / log_sync_complete
\* and changes no synced table)
NextSync ==
    \/ \E st \in SyncTypes : sync_all_tables(st)
    \/ log_sync_start(FALSE)
    \/ \E n \in 0..MaxRows, fault \in BOOLEAN : sync_fetch(n, fault)
    \/ \E fault \in BOOLEAN : sync_delete(fault)
    \/ \E fault \in BOOLEAN : sync_insert_batch(fault)
    \/ \E fault \in BOOLEAN : sync_insert_all(fault)
    \/ sync_complete(FALSE)
    \/ sync_except(FALSE)
    \/ sync_all_next
    \/ update_is_delivered_status
    \/ sync_all_return

SpecSync == InitSync /\ [][NextSync]_vars


(***************************************************************************)
(* Properties of sync_all_tables.                                          *)
(***************************************************************************)
SyncReturnedTrue == pc = "sa_next" /\ results[table_name] = TRUE

\* C2: when a table sync has returned True, the committed target table holds
\* exactly the rows materialized from the result set that sync fetched (so a
\* row from before the sync is gone unless the result set has it again);
\* this holds for each table sync of a run, one after the other.
C2_FullReplace == SyncReturnedTrue => db[table_name] = SeqToBag(data)

\* sync_review_detail has returned True after inserting more than one batch
C2_Witness ==
    /\ SyncReturnedTrue
    /\ table_name = "review_detail"
    /\ Len(data) > BatchSize
    /\ BagSize(db.review_detail) = Len(data)

C3_FixedOrder == <<"contributor", "task_reviewed_info", "task", "review_detail">>

C3_InOrder ==
    (op = "sync_all" /\ pc \in SyncPcs) =>
        /\ cur \in DOMAIN C3_FixedOrder
        /\ table_name = C3_FixedOrder[cur]
        /\ DOMAIN results = {C3_FixedOrder[k] : k \in 1..(cur - 1)}

C3_ReconLast ==
    (op = "sync_all" /\ pc \in UdsPcs \cup {"uds_return"}) =>
        DOMAIN results = {C3_FixedOrder[k] : k \in DOMAIN C3_FixedOrder}

\* C3: in a run of sync_all_tables the table syncs run in the order
\* contributor, task_reviewed_info, task, review_detail, each starting when
\* the ones before it have ended; _update_is_delivered_status starts only when
\* the review_detail sync has ended (with either result); once it has started
\* the run syncs no table, and once it has ended the run changes the store no
\* more.
C3_SyncOrder ==
    /\ [](C3_InOrder /\ C3_ReconLast)
    /\ [][(op = "sync_all" /\ pc \in UdsPcs) => pc' \in UdsPcs \cup {"uds_return"}]_vars
    /\ [][(op = "sync_all" /\ pc = "uds_return") => (pc' = "idle" /\ db' = db)]_vars

\* the reconciliation of a run has set a flag of a freshly loaded
\* review_detail table
C3_Witness ==
    /\ op = "sync_all"
    /\ pc = "uds_return"
    /\ recon_status = "ok"
    /\ results["review_detail"] = TRUE
    /\ \E r \in ReviewRows(db) : r.is_delivered = "True"

SyncAllReturned == outcome.op = "sync_all" /\ outcome.kind = "returned"

\* C4: sync_all_tables returns a map with one boolean for each of the four
\* tables, whatever failed: the entry of a table is false exactly when its
\* sync ended in the except branch (its DataSyncLog row says failed) and true
\* exactly when it completed.
C4_FailureContained ==
    SyncAllReturned =>
        /\ DOMAIN outcome.value = {C3_FixedOrder[k] : k \in DOMAIN C3_FixedOrder}
        /\ \A k \in DOMAIN C3_FixedOrder :
              /\ db.data_sync_log[k].table_name = C3_FixedOrder[k]
              /\ outcome.value[C3_FixedOrder[k]] = FALSE
                    <=> db.data_sync_log[k].sync_status = "failed"
              /\ outcome.value[C3_FixedOrder[k]] = TRUE
                    <=> db.data_sync_log[k].sync_status = "completed"

\* only the contributor sync failed: exactly one false entry
C4_Witness ==
    /\ SyncAllReturned
    /\ outcome.value = [t \in {C3_FixedOrder[k] : k \in DOMAIN C3_FixedOrder} |->
                           t # "contributor"]
    /\ db.data_sync_log[1].sync_status = "failed"

\* C8: while a table sync runs, every change of the committed target table
\* replaces all its rows by all the fetched rows at once, so that a sync that
\* fails has changed nothing and no part of the new rows is ever committed
\* alone.
C8_AllOrNothing ==
    [][(op = "sync_all" /\ pc \in SyncPcs) =>
          \/ db'[table_name] = db[table_name]
          \/ db'[table_name] = SeqToBag(data)]_vars

\* C10: a run of sync_all_tables whose reconciliation raised does not return
\* a normal result to its caller.
C10_ReconFailureFatal ==
    (pc = "idle" /\ outcome.op = "sync_all" /\ recon_status = "raised")
        => outcome.kind = "raised"

(***************************************************************************)
(* Work items: S3IngestionService.insert_work_items and                    *)
(* ClientFeedbackService._update_work_items.                               *)
(***************************************************************************)
MaxManifests == 2      \* manifests a work item can be extracted from
MaxItems == 1          \* work items in one call of insert_work_items
MaxFeedbackRows == 1   \* rows of one feedback frame

Manifests == 1..MaxManifests

\* the taskId found in the work items of manifest m
ManifestTaskId(m) == IF m % 2 = 1 THEN "a" ELSE "b"

\* extract_work_items_from_json: the dictionary built for work item w of
\* manifest m (annotator, folder, upload date and file name are the
\* manifest's)
work_item_data(w, m) ==
    [work_item_id |-> w,
     task_id |-> ManifestTaskId(m),
     annotator_id |-> m,
     colab_link |-> colab_link_of(ManifestTaskId(m)),
     ingestion_date |-> m,
     delivery_date |-> m,
     json_filename |-> m]

ExtractedItems == {work_item_data(w, m) : w \in WorkItemIds, m \in Manifests}

WorkItemLists == UNION {[1..n -> ExtractedItems] : n \in 0..MaxItems}

\* mutant: a conflicting row is replaced by a freshly inserted one
OnConflictUpdate_replace(existing, excluded) == InsertedRow(excluded)

\* on_conflict_do_update(index_elements=['work_item_id'], set_={...})
OnConflictUpdate(existing, excluded) ==
    [existing EXCEPT !.task_id = excluded.task_id,
                     !.annotator_id = excluded.annotator_id,
                     !.colab_link = excluded.colab_link,
                     !.ingestion_date = excluded.ingestion_date,
                     !.delivery_date = excluded.delivery_date,
                     !.json_filename = excluded.json_filename]

ItemIds(items) == {items[k].work_item_id : k \in DOMAIN items}

\* one INSERT ... ON CONFLICT DO UPDATE must not touch a row twice
RepeatsKey(items) ==
    \E j, k \in DOMAIN items : j # k /\ items[j].work_item_id = items[k].work_item_id

Upsert(work_item, items) ==
    [w \in DOMAIN work_item \cup ItemIds(items) |->
        IF w \in ItemIds(items)
        THEN LET excluded == CHOOSE x \in {items[k] : k \in DOMAIN items} :
                                 x.work_item_id = w
             IN  IF w \in DOMAIN work_item
                 THEN OnConflictUpdate(work_item[w], excluded)
                 ELSE InsertedRow(excluded)
        ELSE work_item[w]]

insert_work_items(items, fault) ==
    /\ pc = "idle"
    /\ op' = "insert_work_items"
    /\ work_items' = items
    /\ IF items = <<>>
       THEN /\ outcome' = [op |-> "insert_work_items", kind |-> "returned", value |-> 0]
            /\ UNCHANGED db
       ELSE IF fault \/ RepeatsKey(items)
       THEN /\ outcome' = [op |-> "insert_work_items", kind |-> "raised"]
            /\ UNCHANGED db
       ELSE /\ db' = Commit([db EXCEPT !.work_item = Upsert(@, items)])
            /\ outcome' = [op |-> "insert_work_items", kind |-> "returned",
                           value |-> Len(items)]
    /\ tx' = db'
    /\ UNCHANGED <<pc, recon_status, reconLocals, syncLocals, feedbackLocals, otherLocals>>

\* cells of a feedback frame
FoundId == Text("w1")
PaddedId == <<" ", "w1", " ">>
AbsentId == Text("w9")
Verdicts == {Text("rejected"), <<" ", "Approved", " ">>, Text("approve"),
             <<"Needs", " ", "Review">>}
FrameFeedback == {<<None, None>>, <<"None", "">>, <<"fb", "ec">>}

FrameRow(w, v, f) ==
    [work_item_id |-> w, verdict |-> v,
     task_level_feedback |-> f[1], error_categories |-> f[2]]

\* rows of a frame: every verdict with every feedback for the id as stored,
\* every verdict for the id with blanks around it, one row for an id that no
\* work item has
FrameRows ==
    {FrameRow(FoundId, v, f) : v \in Verdicts, f \in FrameFeedback}
        \cup {FrameRow(PaddedId, v, <<None, None>>) : v \in Verdicts}
        \cup {FrameRow(AbsentId, Text("approve"), <<"fb", "ec">>)}

\* `if value and value != 'None'`
Provided(value) == value # None /\ value # "" /\ value # "None"

\* mutant: a rejected work item loses its collaboration link
ApplyVerdict_unlinking(work_item, verdict, task_level_feedback, error_categories) ==
    [work_item EXCEPT !.client_status = verdict,
                      !.turing_status = IF upper(verdict) = Text("REJECTED")
                                        THEN "Rework" ELSE @,
                      !.colab_link = IF upper(verdict) = Text("REJECTED")
                                     THEN NullLink ELSE @]

\* the assignments made to a found work_item
ApplyVerdict(work_item, verdict, task_level_feedback, error_categories) ==
    LET verdict_upper == upper(verdict)
    IN  [work_item EXCEPT
            !.client_status = verdict,
            !.task_level_feedback =
                IF Provided(task_level_feedback) THEN task_level_feedback ELSE @,
            !.error_categories =
                IF Provided(error_categories) THEN error_categories ELSE @,
            !.turing_status =
                IF verdict_upper = Text("REJECTED") THEN "Rework"
                ELSE IF verdict_upper \in {Text("APPROVED"), Text("APPROVE")}
                THEN "Delivered"
                ELSE @]

\* mutant: the query has no filter
FindWorkItem_unfiltered(work_item, work_item_id) == DOMAIN work_item

\* session.query(WorkItem).filter(WorkItem.work_item_id == work_item_id)
FindWorkItem(work_item, work_item_id) ==
    {w \in DOMAIN work_item : Text(w) = work_item_id}

update_work_items(n) ==
    /\ pc = "idle"
    /\ op' = "update_work_items"
    /\ pc' = "uwi_loop"
    /\ tx' = db
    /\ df_len' = n
    /\ row_no' = 0
    /\ row' = NoRow
    /\ updated' = 0
    /\ not_found' = 0
    /\ errors' = 0
    /\ work_items' = <<>>
    /\ UNCHANGED <<db, outcome, recon_status, reconLocals, syncLocals, otherLocals>>

\* one iteration of `for _, row in df.iterrows()`
uwi_row(r, fault) ==
    /\ pc = "uwi_loop"
    /\ row_no < df_len
    /\ row' = r
    /\ row_no' = row_no + 1
    /\ IF fault
       THEN /\ errors' = errors + 1
            /\ UNCHANGED <<tx, updated, not_found>>
       ELSE LET work_item_id == strip(r.work_item_id)
                verdict == strip(r.verdict)
                found == FindWorkItem(tx.work_item, work_item_id)
            IN  IF found # {}
                THEN /\ tx' = [tx EXCEPT !.work_item =
                                  [w \in DOMAIN @ |->
                                      IF w \in found
                                      THEN ApplyVerdict(@[w], verdict,
                                                        r.task_level_feedback,
                                                        r.error_categories)
                                      ELSE @[w]]]
                     /\ updated' = updated + 1
                     /\ UNCHANGED <<not_found, errors>>
                ELSE /\ not_found' = not_found + 1
                     /\ UNCHANGED <<tx, updated, errors>>
    /\ UNCHANGED <<db, pc, op, outcome, recon_status, reconLocals, syncLocals,
                   work_items, df_len, otherLocals>>

\* session.commit() after the loop, and the return of the counters
uwi_commit(fault) ==
    /\ pc = "uwi_loop"
    /\ row_no = df_len
    /\ pc' = "idle"
    /\ IF fault
       THEN /\ tx' = Rollback(db, tx)
            /\ outcome' = [op |-> "update_work_items", kind |-> "raised"]
            /\ UNCHANGED db
       ELSE /\ db' = Commit(tx)
            /\ outcome' = [op |-> "update_work_items", kind |-> "returned",
                           value |-> [updated |-> updated, not_found |-> not_found,
                                      errors |-> errors]]
            /\ UNCHANGED tx
    /\ df_len' = 0
    /\ row_no' = 0
    /\ row' = NoRow
    /\ updated' = 0
    /\ not_found' = 0
    /\ errors' = 0
    /\ UNCHANGED <<op, recon_status, reconLocals, syncLocals, work_items, otherLocals>>

InitWorkItem ==
    /\ db = EmptyStore
    /\ tx = db
    /\ pc = "idle"
    /\ op = "none"
    /\ outcome = NoOutcome
    /\ recon_status = "none"
    /\ delivered_colab_link_ids = {}
    /\ delivered_task_ids = {}
    /\ InitSyncLocals
    /\ InitItemLocals

NextWorkItem ==
    \/ \E items \in WorkItemLists, fault \in BOOLEAN : insert_work_items(items, fault)
    \/ \E n \in 0..MaxFeedbackRows : update_work_items(n)
    \/ \E r \in FrameRows, fault \in BOOLEAN : uwi_row(r, fault)
    \/ \E fault \in BOOLEAN : uwi_commit(fault)

SpecWorkItem == InitWorkItem /\ [][NextWorkItem]_vars

(***************************************************************************)
(* Properties of the work item operations.                                 *)
(***************************************************************************)
C6_Overwritten == {"task_id", "annotator_id", "colab_link", "ingestion_date",
                   "delivery_date", "json_filename"}
C6_Preserved == {"client_status", "turing_status", "task_level_feedback",
                 "error_categories"}

\* C6: an insert_work_items that returns leaves every existing work item in
\* the table with its client_status, turing_status, task_level_feedback and
\* error_categories as they were, and gives a row whose work_item_id is in the
\* list the task_id, annotator_id, colab_link, ingestion_date, delivery_date
\* and json_filename of the list's item.
C6_UpsertPreservesFeedback ==
    [][(pc = "idle" /\ op' = "insert_work_items" /\ outcome'.kind = "returned") =>
          \A w \in DOMAIN db.work_item :
              /\ w \in DOMAIN db'.work_item
              /\ \A c \in C6_Preserved : db'.work_item[w][c] = db.work_item[w][c]
              /\ \A k \in DOMAIN work_items' :
                    work_items'[k].work_item_id = w =>
                        \A c \in C6_Overwritten :
                            db'.work_item[w][c] = work_items'[k][c]]_vars

\* a work item that feedback had set to "Approved" has been ingested again
\* and is still "Approved"
C6_Witness ==
    /\ pc = "idle"
    /\ op = "insert_work_items"
    /\ outcome.kind = "returned"
    /\ \E k \in DOMAIN work_items :
          /\ db.work_item[work_items[k].work_item_id].client_status = Text("Approved")
          /\ db.work_item[work_items[k].work_item_id].task_level_feedback = "fb"

C7_Rejected == {Text("rejected"), Text("Rejected"), Text("REJECTED")}
C7_Approved == {Text("approved"), Text("Approved"), Text("APPROVED"),
                Text("approve"), Text("Approve"), Text("APPROVE")}

\* v is s without the blanks at its two ends
C7_IsTrimOf(v, s) ==
    \E a, b \in 0..Len(s) :
        /\ a + b <= Len(s)
        /\ v = SubSeq(s, a + 1, Len(s) - b)
        /\ \A k \in 1..a : s[k] = " "
        /\ \A k \in (Len(s) - b + 1)..Len(s) : s[k] = " "
        /\ v # <<>> => (v[1] # " " /\ v[Len(v)] # " ")

\* C7: a frame row counted as updated belongs to a work item whose id is the
\* row's trimmed id; in the session that work item gets the trimmed verdict
\* as client_status, and its turing_status becomes Rework for a verdict that
\* is REJECTED in any case, Delivered for APPROVED or APPROVE in any case, and
\* stays what it was for any other verdict.
C7_VerdictStateMachine ==
    [][(pc = "uwi_loop" /\ updated' = updated + 1) =>
          \E w \in DOMAIN tx.work_item :
              /\ C7_IsTrimOf(Text(w), row'.work_item_id)
              /\ C7_IsTrimOf(tx'.work_item[w].client_status, row'.verdict)
              /\ tx'.work_item[w].turing_status =
                    IF tx'.work_item[w].client_status \in C7_Rejected THEN "Rework"
                    ELSE IF tx'.work_item[w].client_status \in C7_Approved
                    THEN "Delivered"
                    ELSE tx.work_item[w].turing_status]_vars

\* a committed work item that a "rejected" verdict sent to Rework and a later
\* "Needs Review" verdict left there
C7_Witness ==
    /\ pc = "idle"
    /\ outcome.op = "update_work_items"
    /\ outcome.kind = "returned"
    /\ \E w \in DOMAIN db.work_item :
          /\ db.work_item[w].client_status = <<"Needs", " ", "Review">>
          /\ db.work_item[w].turing_status = "Rework"

(***************************************************************************)
(* Aggregation: PostgresQueryService._process_aggregation_results and      *)
(* _process_client_delivery_aggregation.  Scores and counts are whole      *)
(* numbers; the NULL of a numeric column is NoNumber; the result of         *)
(* round(x, 2) is the whole number of its hundredths.                       *)
(***************************************************************************)
MaxAggRows == 3        \* rows of one query result


\* the names in str order
name_order == <<"Accuracy", "Clarity", "Depth">>
NameRank(name) == CHOOSE k \in DOMAIN name_order : name_order[k] = name

\* SELECT DISTINCT name ... WHERE project_id = ... AND is_enabled = 1
EnabledSets == {{"Accuracy"}, {"Accuracy", "Clarity", "Depth"}}

\* `if name`
Truthy(value) == value # None /\ value # ""

\* mutant: the warehouse is asked on every call
AllowedDimensions_uncached(cache, enabled, fault) ==
    IF fault THEN {} ELSE {name \in enabled : Truthy(name)}

\* _get_allowed_quality_dimensions(): the set it returns; a failed fetch
\* gives the empty set
AllowedDimensions(cache, enabled, fault) ==
    IF cache # NotCached THEN cache[1]
    ELSE IF fault THEN {}
    ELSE {name \in enabled : Truthy(name)}

\* mutant: the empty answer of a failed fetch is cached
CacheAfterFetch_storing_failure(cache, enabled, fault) ==
    IF cache # NotCached THEN cache
    ELSE IF fault THEN <<{}>>
    ELSE <<{name \in enabled : Truthy(name)}>>

\* _get_allowed_quality_dimensions(): the cache it leaves
CacheAfterFetch(cache, enabled, fault) ==
    IF cache # NotCached THEN cache
    ELSE IF fault THEN cache
    ELSE <<{name \in enabled : Truthy(name)}>>

AggFunctions == {"_process_aggregation_results", "_process_client_delivery_aggregation"}

\* row.conversation_id in the one function, row.task_id in the other
IdField(fn) ==
    IF fn = "_process_aggregation_results" THEN "conversation_id" ELSE "task_id"

\* group_key: None (overall) or a column; reviewer_id and human_role_id are
\* passed the way domain is
GroupKeys == {None, "domain"}

\* the NULL of the id column: conversation_id is a number, task_id a text
NullId(id_field) == IF id_field = "task_id" THEN None ELSE NoNumber

\* defaultdict(lambda: {...}): the entry of a dimension not seen before
NewDimension ==
    [name |-> None, ids |-> {}, scores |-> <<>>,
     task_scores |-> <<>>, rework_counts |-> <<>>]

HasGroup(gd, g) == \E k \in DOMAIN gd : gd[k].group_value = g
GroupAt(gd, g) == CHOOSE k \in DOMAIN gd : gd[k].group_value = g
WithGroup(gd, g) ==
    IF HasGroup(gd, g) THEN gd
    ELSE Append(gd, [group_value |-> g, dimensions |-> <<>>])

HasDimension(dims, key) == \E k \in DOMAIN dims : dims[k].key = key
DimensionAt(dims, key) == CHOOSE k \in DOMAIN dims : dims[k].key = key
WithDimension(dims, key) ==
    IF HasDimension(dims, key) THEN dims
    ELSE Append(dims, [key |-> key, data |-> NewDimension])

\* mutant: the task-level score is appended once per row, not kept per id
StoreTaskScore_per_row(task_scores, id, task_score) ==
    (<<id, Cardinality(DOMAIN task_scores)>> :> task_score) @@ task_scores

\* grouped_data[group_value][name]['task_scores'][id] = task_score
StoreTaskScore(task_scores, id, task_score) == (id :> task_score) @@ task_scores

\* the body of `if name and name in allowed_dimensions:`
StoreRow(gd, g, name, id, has_id, score, task_score, rework_count) ==
    LET gd1 == WithGroup(gd, g)
        gi == GroupAt(gd1, g)
        dims1 == WithDimension(gd1[gi].dimensions, name)
        di == DimensionAt(dims1, name)
        d1 == [dims1[di].data EXCEPT
                  !.name = name,
                  !.ids = IF has_id THEN @ \cup {id} ELSE @,
                  !.task_scores =
                      IF has_id /\ task_score # NoNumber
                      THEN StoreTaskScore(@, id, task_score) ELSE @,
                  !.rework_counts =
                      IF has_id /\ rework_count # NoNumber
                      THEN (id :> rework_count) @@ @ ELSE @,
                  !.scores = IF score # NoNumber THEN Append(@, score) ELSE @]
    IN  [gd1 EXCEPT ![gi].dimensions = [dims1 EXCEPT ![di].data = d1]]

\* mutant: the allow-list is not consulted
Allowed_any(name, allowed) == Truthy(name)

\* `name and name in allowed_dimensions`
Allowed(name, allowed) == Truthy(name) /\ name \in allowed

\* one iteration of `for row in results`
AccumulateRow(gd, r, gkey, id_field, allowed) ==
    LET group_value == IF Truthy(gkey) THEN r[gkey] ELSE "overall"
    IN  IF Allowed(r.name, allowed)
        THEN StoreRow(gd, group_value, r.name, r[id_field],
                      r[id_field] # NullId(id_field), r.score,
                      r.task_score, r.rework_count)
        ELSE gd

RECURSIVE SumValues(_, _)
SumValues(f, S) ==
    IF S = {} THEN 0
    ELSE LET x == CHOOSE y \in S : TRUE
         IN  f[x] + SumValues(f, S \ {x})

\* round(num / den, 2) in hundredths, ties to the even hundredth
Round2(num, den) ==
    LET q == (100 * num) \div den
        r == (100 * num) % den
    IN  IF 2 * r > den THEN q + 1
        ELSE IF 2 * r < den THEN q
        ELSE IF q % 2 = 0 THEN q ELSE q + 1

\* all_x = {}; for name, data in dimensions.items(): all_x.update(data[x])
RECURSIVE UpdateAll(_, _, _)
UpdateAll(dims, field, k) ==
    IF k = 0 THEN <<>>
    ELSE dims[k].data[field] @@ UpdateAll(dims, field, k - 1)

\* all_conversation_ids.update(data['conversation_ids']) for every dimension
AllIds(dims) == UNION {dims[k].data.ids : k \in DOMAIN dims}

\* the dictionary appended to quality_dimensions
DimensionItem(d) ==
    [name |-> d.name,
     average_score |-> IF d.scores # <<>>
                       THEN Round2(SumValues(d.scores, DOMAIN d.scores), Len(d.scores))
                       ELSE NoNumber,
     task_count |-> Cardinality(d.ids)]

\* list.sort(key=lambda x: x['name']): insertion of item into a sorted list
RECURSIVE InsertByName(_, _)
InsertByName(sorted, item) ==
    IF sorted = <<>> THEN <<item>>
    ELSE IF NameRank(item.name) < NameRank(Head(sorted).name)
    THEN <<item>> \o sorted
    ELSE <<Head(sorted)>> \o InsertByName(Tail(sorted), item)

RECURSIVE SortByName(_)
SortByName(items) ==
    IF items = <<>> THEN <<>>
    ELSE InsertByName(SortByName(SubSeq(items, 1, Len(items) - 1)), items[Len(items)])

\* the item built for one group
GroupItem(entry, gkey) ==
    LET dims == entry.dimensions
        all_task_scores == UpdateAll(dims, "task_scores", Len(dims))
        all_rework_counts == UpdateAll(dims, "rework_counts", Len(dims))
        item ==
            [task_count |-> Cardinality(AllIds(dims)),
             average_task_score |->
                 IF DOMAIN all_task_scores # {}
                 THEN Round2(SumValues(all_task_scores, DOMAIN all_task_scores),
                             Cardinality(DOMAIN all_task_scores))
                 ELSE NoNumber,
             total_rework_count |->
                 SumValues(all_rework_counts, DOMAIN all_rework_counts),
             average_rework_count |->
                 IF DOMAIN all_rework_counts # {}
                 THEN Round2(SumValues(all_rework_counts, DOMAIN all_rework_counts),
                             Cardinality(DOMAIN all_rework_counts))
                 ELSE 0,
             quality_dimensions |->
                 SortByName([k \in DOMAIN dims |-> DimensionItem(dims[k].data)])]
    IN  IF Truthy(gkey) THEN (gkey :> entry.group_value) @@ item ELSE item

\* `for group_value, dimensions in grouped_data.items(): ... result.append(item)`
AggregationResult(gd, gkey) == [k \in DOMAIN gd |-> GroupItem(gd[k], gkey)]

\* the columns a query result row takes from its task; task 4 has no review
\* score, no rework count and no domain
DomainOf(t) ==
    IF t = NoNumber THEN "d1"
    ELSE IF t = 4 THEN None
    ELSE IF t % 2 = 1 THEN "d1" ELSE "d2"

TaskScoreOf(t) == IF t = 4 THEN NoNumber ELSE IF t = 3 THEN 5 ELSE 4

ReworkCountOf(t) == IF t \in {4, NoNumber} THEN NoNumber ELSE t - 1

\* name, task id and score of a query result row
AggShapes ==
    {<<"Accuracy", 1, 3>>, <<"Clarity", 1, 3>>, <<"Accuracy", 2, 3>>,
     <<"Accuracy", 3, 4>>, <<"Clarity", 4, NoNumber>>, <<None, 2, 3>>,
     <<"Accuracy", NoNumber, 5>>}

\* WorkItem.task_id of the work item delivered for task t
TaskIdText(t) == IF t = NoNumber THEN None ELSE <<"a", "b", "c", "d">>[t]

AggRow(fn, shape) ==
    (IdField(fn) :> IF IdField(fn) = "task_id" THEN TaskIdText(shape[2])
                    ELSE shape[2]) @@
    [name |-> shape[1], score |-> shape[3],
     domain |-> DomainOf(shape[2]),
     task_score |-> TaskScoreOf(shape[2]),
     rework_count |-> ReworkCountOf(shape[2])]

AggRows(fn) == {AggRow(fn, shape) : shape \in AggShapes}

\* the function is entered: grouped_data = defaultdict(...)
aggregate_call(fn, gkey) ==
    /\ pc = "idle"
    /\ op' = fn
    /\ pc' = "agg_loop"
    /\ outcome' = NoOutcome
    /\ agg_fn' = fn
    /\ group_key' = gkey
    /\ query_results' = <<>>
    /\ row_index' = 0
    /\ allowed_dimensions' = <<>>
    /\ grouped_data' = <<>>
    /\ UNCHANGED <<db, tx, recon_status, reconLocals, syncLocals,
                   work_items, feedbackLocals, ingestLocals, sessionLocals, enabled_dimensions,
                   allowed_quality_dimensions_cache>>

\* one iteration of `for row in results`: the next row r of the list, with
\* the call of _get_allowed_quality_dimensions made for it
aggregate_row(r, fault) ==
    /\ pc = "agg_loop"
    /\ row_index < MaxAggRows
    /\ query_results' = Append(query_results, r)
    /\ LET allowed == AllowedDimensions(allowed_quality_dimensions_cache,
                                        enabled_dimensions, fault)
       IN  /\ allowed_dimensions' = Append(allowed_dimensions, allowed)
           /\ grouped_data' = AccumulateRow(grouped_data, r, group_key,
                                            IdField(agg_fn), allowed)
    /\ allowed_quality_dimensions_cache' =
           CacheAfterFetch(allowed_quality_dimensions_cache, enabled_dimensions, fault)
    /\ row_index' = row_index + 1
    /\ UNCHANGED <<db, tx, pc, op, outcome, recon_status, reconLocals, syncLocals,
                   work_items, feedbackLocals, ingestLocals, sessionLocals, enabled_dimensions, agg_fn,
                   group_key>>

\* the list has ended: the conversion to the final format and `return result`
aggregate_return ==
    /\ pc = "agg_loop"
    /\ outcome' = [op |-> agg_fn, kind |-> "returned",
                   value |-> AggregationResult(grouped_data, group_key)]
    /\ pc' = "idle"
    /\ UNCHANGED <<db, tx, op, recon_status, reconLocals, syncLocals,
                   work_items, feedbackLocals, ingestLocals, sessionLocals, aggLocals>>

InitAggregate ==
    /\ db = EmptyStore
    /\ tx = db
    /\ pc = "idle"
    /\ op = "none"
    /\ outcome = NoOutcome
    /\ recon_status = "none"
    /\ delivered_colab_link_ids = {}
    /\ delivered_task_ids = {}
    /\ InitSyncLocals
    /\ work_items = <<>>
    /\ df_len = 0
    /\ row_no = 0
    /\ row = NoRow
    /\ updated = 0
    /\ not_found = 0
    /\ errors = 0
    /\ InitIngestLocals
    /\ InitSessionLocals
    /\ enabled_dimensions \in EnabledSets
    /\ allowed_quality_dimensions_cache = NotCached
    /\ InitAggCall

NextAggregate ==
    \/ \E fn \in AggFunctions, gkey \in GroupKeys : aggregate_call(fn, gkey)
    \/ \E r \in AggRows(agg_fn), fault \in BOOLEAN : aggregate_row(r, fault)
    \/ aggregate_return

SpecAggregate == InitAggregate /\ [][NextAggregate]_vars

(***************************************************************************)
(* Properties of the aggregation functions.                                *)
(***************************************************************************)
AggReturned ==
    pc = "idle" /\ outcome.op \in AggFunctions /\ outcome.kind = "returned"

\* the group a row of the query result belongs to
AggGroupOf(r) == IF group_key \in {None, ""} THEN "overall" ELSE r[group_key]

\* the rows that passed the allow-list their iteration was given
AggIncluded ==
    {k \in DOMAIN query_results :
        /\ query_results[k].name \notin {None, ""}
        /\ query_results[k].name \in allowed_dimensions[k]}

AggGroupValue(item) == IF group_key \in {None, ""} THEN "overall" ELSE item[group_key]

\* the included rows of the group of item that carry a task id
AggTaskRows(item) ==
    {k \in AggIncluded :
        /\ AggGroupOf(query_results[k]) = AggGroupValue(item)
        /\ query_results[k][IdField(agg_fn)] # NullId(IdField(agg_fn))}

\* the distinct tasks of those rows for which column has a value, and the
\* value of each
AggTasksWith(item, column) ==
    {query_results[k][IdField(agg_fn)] :
        k \in {j \in AggTaskRows(item) : query_results[j][column] # NoNumber}}

AggValueOf(item, column, t) ==
    LET k == CHOOSE j \in AggTaskRows(item) :
                 /\ query_results[j][IdField(agg_fn)] = t
                 /\ query_results[j][column] # NoNumber
    IN  query_results[k][column]

RECURSIVE AggSumOver(_, _, _)
AggSumOver(item, column, S) ==
    IF S = {} THEN 0
    ELSE LET t == CHOOSE y \in S : TRUE
         IN  AggValueOf(item, column, t) + AggSumOver(item, column, S \ {t})

\* C11 as stated: average_task_score is the mean, over the distinct tasks of
\* the group, of the task-level score, each task counted once (null when no
\* task has one), and total_rework_count is the sum of the rework counts of
\* the distinct tasks.
C11_MeanOverDistinctTasks ==
    AggReturned =>
        \A n \in DOMAIN outcome.value :
            LET item == outcome.value[n]
                scored == AggTasksWith(item, "task_score")
                reworked == AggTasksWith(item, "rework_count")
            IN  /\ IF scored = {} THEN item.average_task_score = NoNumber
                   ELSE item.average_task_score * Cardinality(scored)
                            = 100 * AggSumOver(item, "task_score", scored)
                /\ item.total_rework_count = AggSumOver(item, "rework_count", reworked)

\* C11, amended: average_task_score is that mean rounded to two decimals
\* (ties to the even hundredth); each task is counted once however many rows
\* it has, and total_rework_count adds each task's rework count once.
C11_RoundedMeanOverDistinctTasks ==
    AggReturned =>
        \A n \in DOMAIN outcome.value :
            LET item == outcome.value[n]
                scored == AggTasksWith(item, "task_score")
                reworked == AggTasksWith(item, "rework_count")
                total == AggSumOver(item, "task_score", scored)
                hundredths == item.average_task_score
            IN  /\ IF scored = {} THEN hundredths = NoNumber
                   ELSE LET size == Cardinality(scored)
                        IN  /\ 2 * (hundredths * size - 100 * total) <= size
                            /\ 2 * (100 * total - hundredths * size) <= size
                            /\ (2 * (hundredths * size - 100 * total) \in {size, -size})
                                  => hundredths % 2 = 0
                /\ item.total_rework_count = AggSumOver(item, "rework_count", reworked)

\* a group of one task with three dimension rows and one more task with one
\* row: the average is over the two tasks (4 and 5 give 4.50), the rework
\* counts 0 and 2 are added once each
C11_Witness ==
    /\ AggReturned
    /\ agg_fn = "_process_aggregation_results"
    /\ Len(query_results) = 3
    /\ \E n \in DOMAIN outcome.value :
          /\ AggTasksWith(outcome.value[n], "task_score") = {1, 3}
          /\ Cardinality({k \in AggTaskRows(outcome.value[n]) :
                             query_results[k][IdField(agg_fn)] = 1}) = 2
          /\ outcome.value[n].average_task_score = 450
          /\ outcome.value[n].total_rework_count = 2

\* the included rows of the group of item
AggGroupRows(item) ==
    {k \in AggIncluded : AggGroupOf(query_results[k]) = AggGroupValue(item)}

\* the task ids carried by the rows of S
AggIdsOf(S) == {query_results[k][IdField(agg_fn)] : k \in S} \ {NullId(IdField(agg_fn))}

AggEntries(item) ==
    {item.quality_dimensions[k] : k \in DOMAIN item.quality_dimensions}

RECURSIVE AggScoreSum(_)
AggScoreSum(S) ==
    IF S = {} THEN 0
    ELSE LET k == CHOOSE j \in S : TRUE
         IN  query_results[k].score + AggScoreSum(S \ {k})

\* C12: every entry of a group's quality_dimensions has a name of the
\* allow-list in use (the enabled names, and the list the row was checked
\* against); a name outside it never appears although rows for it exist, and
\* such rows add nothing: the group's task_count, every entry's task_count
\* and average score and the group's rework total are those of the included
\* rows alone, and a group with no included row is not returned.
C12_AllowListFilter ==
    AggReturned =>
        \A n \in DOMAIN outcome.value :
            LET item == outcome.value[n]
                rows == AggGroupRows(item)
            IN  /\ rows # {}
                /\ {q.name : q \in AggEntries(item)} = {query_results[k].name : k \in rows}
                /\ \A q \in AggEntries(item) : q.name \in enabled_dimensions
                /\ item.task_count = Cardinality(AggIdsOf(rows))
                /\ \A q \in AggEntries(item) :
                      LET of_q == {k \in rows : query_results[k].name = q.name}
                          scored == {k \in of_q : query_results[k].score # NoNumber}
                      IN  /\ q.task_count = Cardinality(AggIdsOf(of_q))
                          /\ q.average_score =
                                IF scored = {} THEN NoNumber
                                ELSE Round2(AggScoreSum(scored), Cardinality(scored))
                /\ item.total_rework_count =
                      AggSumOver(item, "rework_count", AggTasksWith(item, "rework_count"))

\* Clarity is not enabled: a result whose rows include a Clarity row of a
\* task that has no other row, and that task is not counted
C12_Witness ==
    /\ AggReturned
    /\ agg_fn = "_process_client_delivery_aggregation"
    /\ "Clarity" \notin enabled_dimensions
    /\ \E k \in DOMAIN query_results :
          /\ query_results[k].name = "Clarity"
          /\ query_results[k].task_id = "a"
    /\ \E n \in DOMAIN outcome.value :
          /\ outcome.value[n].task_count = 1
          /\ AggIdsOf(AggGroupRows(outcome.value[n])) = {"c"}

(***************************************************************************)
(* The aggregation getters of PostgresQueryService: each builds its query, *)
(* runs it in a session and hands the rows to an aggregation function.     *)
(***************************************************************************)
\* the attributes of Task the aggregation queries name
QueriedTaskColumns == {"id", "colab_link", "rework_count"}

\* session.query(ReviewDetail, Task.rework_count): naming an attribute the
\* model class does not have raises AttributeError
QueryBuilt == QueriedTaskColumns \subseteq Columns("task")

RECURSIVE BagToSeq(_)
BagToSeq(B) ==
    IF BagToSet(B) = {} THEN <<>>
    ELSE LET x == CHOOSE y \in BagToSet(B) : TRUE
         IN  <<x>> \o BagToSeq(B (-) SetToBag({x}))

RECURSIVE Flatten(_)
Flatten(seqs) == IF seqs = <<>> THEN <<>> ELSE Head(seqs) \o Flatten(Tail(seqs))

SetToSeq(S) == BagToSeq(SetToBag(S))

\* query(ReviewDetail, Task.rework_count).outerjoin(Task, conversation_id == Task.id)
\*   .filter(ReviewDetail.is_delivered == 'False'); rework_count set on each row
PreDeliveryRows(store) ==
    LET kept == SelectSeq(BagToSeq(store.review_detail),
                          LAMBDA r : r.is_delivered = "False")
        joined(r) == {t \in BagToSet(store.task) : t.id = r.conversation_id}
    IN  [k \in DOMAIN kept |->
            [rework_count |-> IF joined(kept[k]) = {} THEN NoNumber
                              ELSE (CHOOSE t \in joined(kept[k]) : TRUE).rework_count]
            @@ kept[k]]

\* query(ReviewDetail.domain, .name, .score, .task_score, WorkItem.task_id,
\*       Task.rework_count).join(Task, conversation_id == Task.id)
\*   .join(WorkItem, Task.colab_link == WorkItem.colab_link)
\*   .filter(ReviewDetail.is_delivered == 'True')
PostDeliveryRows(store) ==
    LET kept == SelectSeq(BagToSeq(store.review_detail),
                          LAMBDA r : r.is_delivered = "True")
        joined(r) ==
            {<<t, w>> \in BagToSet(store.task) \X DOMAIN store.work_item :
                /\ t.id = r.conversation_id
                /\ t.colab_link # NullLink
                /\ t.colab_link = store.work_item[w].colab_link}
        rows(r) ==
            LET pairs == SetToSeq(joined(r))
            IN  [k \in DOMAIN pairs |->
                    [domain |-> r.domain, name |-> r.name, score |-> r.score,
                     task_score |-> r.task_score,
                     task_id |-> store.work_item[pairs[k][2]].task_id,
                     rework_count |-> pairs[k][1].rework_count]]
    IN  Flatten([k \in DOMAIN kept |-> rows(kept[k])])

\* the aggregation function run over rows; faults[k] tells whether the
\* allow-list fetch made for row k fails
RECURSIVE ProcessRows(_, _, _, _, _, _, _)
ProcessRows(rows, k, fn, gkey, cache, enabled, faults) ==
    IF k = 0 THEN [grouped_data |-> <<>>, cache |-> cache]
    ELSE LET before == ProcessRows(rows, k - 1, fn, gkey, cache, enabled, faults)
             allowed == AllowedDimensions(before.cache, enabled, faults[k])
         IN  [grouped_data |-> AccumulateRow(before.grouped_data, rows[k], gkey,
                                             IdField(fn), allowed),
              cache |-> CacheAfterFetch(before.cache, enabled, faults[k])]

\* count(distinct(Task.id)) filter Task.is_delivered == 'False'
ActualTaskCount(store) ==
    Cardinality({r.id : r \in {x \in BagToSet(store.task) : x.is_delivered = "False"}})

\* the tail of get_overall_aggregation: aggregated[0] with its counts replaced
OverallData(aggregated, rows, store) ==
    IF aggregated = <<>>
    THEN [task_count |-> 0, domain_count |-> 0, delivered_tasks |-> 0,
          delivered_files |-> 0, work_items_count |-> 0,
          quality_dimensions |-> <<>>]
    ELSE [aggregated[1] EXCEPT !.task_count = ActualTaskCount(store)] @@
         [domain_count |->
              Cardinality({rows[k].domain : k \in DOMAIN rows} \ {None, ""}),
          delivered_tasks |->
              Cardinality({store.work_item[w].task_id : w \in DOMAIN store.work_item}),
          delivered_files |->
              Cardinality({store.work_item[w].json_filename :
                              w \in DOMAIN store.work_item}),
          work_items_count |-> Cardinality(DOMAIN store.work_item)]

AggGetters ==
    {"get_overall_aggregation", "get_domain_aggregation",
     "get_client_delivery_domain_aggregation"}

GetterFunction(getter) ==
    IF getter = "get_client_delivery_domain_aggregation"
    THEN "_process_client_delivery_aggregation"
    ELSE "_process_aggregation_results"

GetterGroupKey(getter) == IF getter = "get_overall_aggregation" THEN None ELSE "domain"

GetterRows(getter, store) ==
    IF getter = "get_client_delivery_domain_aggregation"
    THEN PostDeliveryRows(store)
    ELSE PreDeliveryRows(store)

\* the domains in str order
domain_order == <<"Unknown", "d1", "d2">>
DomainRank(domain) == CHOOSE k \in DOMAIN domain_order : domain_order[k] = domain

\* aggregated.sort(key=lambda x: x.get('domain', ''))
RECURSIVE InsertByDomain(_, _)
InsertByDomain(sorted, item) ==
    IF sorted = <<>> THEN <<item>>
    ELSE IF DomainRank(item.domain) < DomainRank(Head(sorted).domain)
    THEN <<item>> \o sorted
    ELSE <<Head(sorted)>> \o InsertByDomain(Tail(sorted), item)

RECURSIVE SortByDomain(_)
SortByDomain(items) ==
    IF items = <<>> THEN <<>>
    ELSE InsertByDomain(SortByDomain(SubSeq(items, 1, Len(items) - 1)),
                        items[Len(items)])

\* what the getter makes of the list the aggregation function returned; the
\* sort of get_domain_aggregation cannot compare None with a text
GetterOutcome(getter, aggregated, rows, store) ==
    IF getter = "get_overall_aggregation"
    THEN [op |-> getter, kind |-> "returned",
          value |-> OverallData(aggregated, rows, store)]
    ELSE IF getter = "get_domain_aggregation"
    THEN IF Len(aggregated) > 1 /\ \E k \in DOMAIN aggregated : aggregated[k].domain = None
         THEN [op |-> getter, kind |-> "raised", error |-> "TypeError"]
         ELSE [op |-> getter, kind |-> "returned", value |-> SortByDomain(aggregated)]
    ELSE [op |-> getter, kind |-> "returned",
          value |-> [k \in DOMAIN aggregated |->
                        [aggregated[k] EXCEPT
                            !.domain = IF Truthy(@) THEN @ ELSE "Unknown"]]]

MaxTaskCountFilter == 2

\* the filters dict built by the stats routers: domain and quality_dimension
\* are Optional[str], min_task_count is Query(None, ge=1)
FilterSets ==
    [domain : {None, "d1"}, quality_dimension : {None, "Accuracy"},
     min_task_count : {NoNumber} \cup 1..MaxTaskCountFilter]

\* `if filters: if filters.get('domain'): query = query.filter(...)` and so
\* on for each key the getter reads: chained filter() calls; no getter reads
\* filters['min_task_count']
ApplyFilters(rows, f) ==
    SelectSeq(rows,
              LAMBDA r : /\ Truthy(f.domain) => r.domain = f.domain
                         /\ Truthy(f.quality_dimension) => r.name = f.quality_dimension)

\* one call of a getter: `try: with get_session() as session: query = ...;
\* results = query.all(); aggregated = self._process_...(results, group_key);
\* ... return ...; except Exception as e: logger.error(...); raise`
get_aggregation(getter, f) ==
    /\ pc = "idle"
    /\ op' = getter
    /\ filters' = f
    /\ IF ~QueryBuilt
       THEN /\ outcome' = [op |-> getter, kind |-> "raised", error |-> "AttributeError"]
            /\ UNCHANGED allowed_quality_dimensions_cache
       ELSE LET rows == ApplyFilters(GetterRows(getter, db), f)
            IN  \E faults \in [DOMAIN rows -> BOOLEAN] :
                   LET done == ProcessRows(rows, Len(rows), GetterFunction(getter),
                                           GetterGroupKey(getter),
                                           allowed_quality_dimensions_cache,
                                           enabled_dimensions, faults)
                       aggregated == AggregationResult(done.grouped_data,
                                                       GetterGroupKey(getter))
                   IN  /\ outcome' = GetterOutcome(getter, aggregated, rows, db)
                       /\ allowed_quality_dimensions_cache' = done.cache
    /\ UNCHANGED <<db, tx, pc, recon_status, reconLocals, syncLocals, work_items,
                   feedbackLocals, ingestLocals, runs, observed, enabled_dimensions,
                   agg_fn, group_key, query_results, row_index, allowed_dimensions,
                   grouped_data>>

get_overall_aggregation ==
    \E f \in FilterSets : get_aggregation("get_overall_aggregation", f)
get_domain_aggregation ==
    \E f \in FilterSets : get_aggregation("get_domain_aggregation", f)
get_client_delivery_domain_aggregation ==
    \E f \in FilterSets : get_aggregation("get_client_delivery_domain_aggregation", f)

\* review_detail rows with the columns the aggregations read
QueryReviewDetailRows ==
    {[conversation_id |-> t, is_delivered |-> f, name |-> name, score |-> 3,
      task_score |-> TaskScoreOf(t), domain |-> DomainOf(t)] :
        t \in TaskIds, f \in Flags, name \in {"Accuracy", "Clarity"}}

QueryReviewDetailTables ==
    {[r \in {x \in QueryReviewDetailRows : c[x] > 0} |-> c[r]] :
        c \in {d \in [QueryReviewDetailRows -> 0..1] :
                  SumCopies(QueryReviewDetailRows, d) <= MaxReviewRows}}

InitQuery ==
    /\ db \in {[EmptyStore EXCEPT !.task = t, !.review_detail = r, !.work_item = w] :
                  t \in TaskTables, r \in QueryReviewDetailTables, w \in WorkItemTables}
    /\ tx = db
    /\ pc = "idle"
    /\ op = "none"
    /\ outcome = NoOutcome
    /\ recon_status = "none"
    /\ delivered_colab_link_ids = {}
    /\ delivered_task_ids = {}
    /\ InitSyncLocals
    /\ work_items = <<>>
    /\ df_len = 0
    /\ row_no = 0
    /\ row = NoRow
    /\ updated = 0
    /\ not_found = 0
    /\ errors = 0
    /\ InitIngestLocals
    /\ InitSessionLocals
    /\ enabled_dimensions \in EnabledSets
    /\ allowed_quality_dimensions_cache = NotCached
    /\ InitAggCall

NextQuery ==
    \/ get_overall_aggregation
    \/ get_domain_aggregation
    \/ get_client_delivery_domain_aggregation

SpecQuery == InitQuery /\ [][NextQuery]_vars

(***************************************************************************)
(* Properties of the getters.                                              *)
(***************************************************************************)
GetterDone(getter) == pc = "idle" /\ outcome.op = getter

\* what the aggregation functions return: the group's task_count is the size
\* of the union of the id sets of its dimensions, the dimensions are in name
\* order, each with the number of distinct ids seen for it
C13_GroupCounts ==
    AggReturned =>
        \A n \in DOMAIN outcome.value :
            LET item == outcome.value[n]
                dims == item.quality_dimensions
                seen(q) == AggIdsOf({k \in AggGroupRows(item) :
                                        query_results[k].name = q.name})
            IN  /\ item.task_count = Cardinality(UNION {seen(q) : q \in AggEntries(item)})
                /\ \A a, b \in DOMAIN dims :
                      a < b => NameRank(dims[a].name) < NameRank(dims[b].name)
                /\ \A q \in AggEntries(item) : q.task_count = Cardinality(seen(q))

\* C13: for every group kind the task_count returned for a group is the
\* number of distinct task ids in the union of the id sets of its included
\* dimensions, the dimensions are sorted by name and each has the number of
\* distinct ids seen for it; for the overall group the ids are those of the
\* undelivered review rows with an allowed name.
C13_TaskCountIsUnion ==
    /\ C13_GroupCounts
    /\ GetterDone("get_overall_aggregation") =>
          /\ outcome.kind = "returned"
          /\ outcome.value.task_count =
                Cardinality({r.conversation_id :
                                r \in {x \in ReviewRows(db) :
                                          /\ x.is_delivered = "False"
                                          /\ x.name \in enabled_dimensions}})

\* C14: the pre-delivery domain aggregation counts, per domain, the distinct
\* task ids of the ReviewDetail rows with is_delivered = False; the
\* post-delivery one counts, per domain, the distinct WorkItem.task_id values
\* joined through Task to the rows with is_delivered = True, at least 1 and
\* not the number of joined rows.
C14_DeliveryScopes ==
    /\ GetterDone("get_domain_aggregation") =>
          /\ outcome.kind = "returned"
          /\ \A n \in DOMAIN outcome.value :
                outcome.value[n].task_count =
                    Cardinality({r.conversation_id :
                                    r \in {x \in ReviewRows(db) :
                                              /\ x.is_delivered = "False"
                                              /\ x.domain = outcome.value[n].domain
                                              /\ x.name \in enabled_dimensions}})
    /\ GetterDone("get_client_delivery_domain_aggregation") =>
          /\ outcome.kind = "returned"
          /\ \A n \in DOMAIN outcome.value :
                /\ outcome.value[n].task_count >= 1
                /\ outcome.value[n].task_count =
                      Cardinality(
                          {db.work_item[w].task_id :
                              w \in {v \in DOMAIN db.work_item :
                                        \E r \in ReviewRows(db), task \in TaskRows(db) :
                                            /\ r.is_delivered = "True"
                                            /\ r.domain = outcome.value[n].domain
                                            /\ r.name \in enabled_dimensions
                                            /\ task.id = r.conversation_id
                                            /\ task.colab_link = db.work_item[v].colab_link}})

(***************************************************************************)
(* ingest_from_s3: the manifests of the bucket, extraction, the run.       *)
(***************************************************************************)
MaxFolders == 2        \* folders list_s3_folders can return
MaxFiles == 2          \* JSON files list_json_files_in_folder can return

\* a work item of a manifest: workitem.get('workItemId') and the taskId of
\* the first list-valued field with a metadata object (None when absent)
RawItem(work_item_id, task_id) ==
    [workItemId |-> work_item_id, taskId |-> task_id, annotatorId |-> 1]

\* the `workitems` lists of the manifests: none, one or two complete items,
\* an item without workItemId alone and next to a complete one, an item
\* with an empty workItemId, an item without taskId, one id twice
WorkItemsLists ==
    {<<>>,
     <<RawItem("w1", "a")>>,
     <<RawItem("w2", "b")>>,
     <<RawItem("w1", "a"), RawItem("w2", "a")>>,
     <<RawItem(None, "a")>>,
     <<RawItem("w1", "a"), RawItem(None, "a")>>,
     <<RawItem(None, "b"), RawItem("w2", "b")>>,
     <<RawItem("", "a"), RawItem("w1", "b")>>,
     <<RawItem("w1", None)>>,
     <<RawItem("w1", "a"), RawItem("w1", "b")>>}

\* a parsed manifest: a dictionary from its top-level keys
Documents ==
    {[key \in {} |-> <<>>], [version |-> <<>>]}
        \cup {[workitems |-> l] : l \in WorkItemsLists}

\* an object of the bucket: one that get_object cannot read, one whose body
\* is no JSON, one that parses to a document
S3Objects ==
    {[body |-> "unreadable"], [body |-> "malformed"]}
        \cup {[body |-> "json", document |-> d] : d \in Documents}

\* read_json_from_s3: None is <<>>, a parsed document d is <<d>>
read_json_from_s3(object) ==
    IF object.body = "json" THEN <<object.document>> ELSE <<>>

\* `if not json_data`: None and the empty dictionary
NotJsonData(parsed) == parsed = <<>> \/ DOMAIN parsed[1] = {}

\* `if not work_item_id`
MissingId(work_item_id) == ~Truthy(work_item_id)

\* one turn of `for workitem in workitems_list`: the dictionaries appended
ExtractItem(workitem, ingestion_date, json_filename, delivery_date) ==
    IF MissingId(workitem.workItemId) THEN <<>>
    ELSE IF ~Truthy(workitem.taskId) THEN <<>>
    ELSE <<[work_item_id |-> workitem.workItemId,
            task_id |-> workitem.taskId,
            annotator_id |-> workitem.annotatorId,
            colab_link |-> colab_link_of(workitem.taskId),
            ingestion_date |-> ingestion_date,
            delivery_date |-> delivery_date,
            json_filename |-> json_filename]>>

RECURSIVE ExtractItems(_, _, _, _)
ExtractItems(workitems_list, ingestion_date, json_filename, delivery_date) ==
    IF workitems_list = <<>> THEN <<>>
    ELSE ExtractItem(Head(workitems_list), ingestion_date, json_filename,
                     delivery_date)
            \o ExtractItems(Tail(workitems_list), ingestion_date, json_filename,
                            delivery_date)

extract_work_items_from_json(document, ingestion_date, json_filename, delivery_date) ==
    IF "workitems" \notin DOMAIN document THEN <<>>
    ELSE ExtractItems(document.workitems, ingestion_date, json_filename,
                      delivery_date)

\* DataSyncLog(table_name='work_item', sync_status='started', sync_type=...)
IngestStartedRow(folder) ==
    [table_name |-> "work_item", sync_status |-> "started",
     sync_type |-> IF folder # NoNumber THEN "manual" ELSE "scheduled",
     sync_completed_at |-> None, records_synced |-> NoNumber,
     error_message |-> <<>>]

\* 'completed' if not errors else 'completed_with_errors'
IngestStatus(errs) == IF errs = <<>> THEN "completed" ELSE "completed_with_errors"

\* the assignments to the row after the reconciliation
IngestClosedRow(started, records_synced, errs) ==
    [started EXCEPT !.sync_completed_at = "end_time",
                    !.records_synced = records_synced,
                    !.sync_status = IngestStatus(errs),
                    !.error_message = SubSeq(errs, 1, IF Len(errs) < 10 THEN Len(errs)
                                                      ELSE 10)]

\* the assignments to the row in `except Exception as e`
IngestFailedRow(started, e) ==
    [started EXCEPT !.sync_status = "failed",
                    !.error_message = <<e>>,
                    !.sync_completed_at = "now"]

\* `errors if errors else None`
ErrorsOrNone(errs) ==
    IF errs # <<>> THEN [none |-> FALSE, list |-> errs]
    ELSE [none |-> TRUE, list |-> <<>>]

\* the dictionary returned when no folder is found
NoFoldersResult ==
    [status |-> "completed", files_processed |-> 0, work_items_ingested |-> 0,
     errors |-> [none |-> FALSE, list |-> <<<<"No folders found">>>>]]

\* the dictionary returned at the end of the run
IngestResult(files, items, errs) ==
    [status |-> IngestStatus(errs), files_processed |-> files,
     work_items_ingested |-> items, errors |-> ErrorsOrNone(errs)]

FolderNames == 1..MaxFolders
FolderLists == {[k \in 1..n |-> k] : n \in 0..MaxFolders}

\* list_json_files_in_folder: key and last_modified of n files
FilesInfo(folder, n) ==
    [k \in 1..n |-> [key |-> <<folder, k>>, last_modified |-> k]]

MaxIngestRuns == 1     \* runs of ingest_from_s3 that open a DataSyncLog row

\* lines 292-324: the DataSyncLog row is added and committed, the folders are
\* listed; with no folder the run returns at once.  A failure of the first
\* commit reaches the except clause before sync_log_id is assigned, so the
\* clause itself raises; list_s3_folders can raise what it does not catch.
ingest_from_s3(folder, listed, fault) ==
    /\ pc = "idle"
    /\ Len(db.data_sync_log) < MaxIngestRuns
    /\ op' = "ingest"
    /\ specific_folder' = folder
    /\ total_files_processed' = 0
    /\ total_work_items' = 0
    /\ ingest_errors' = <<>>
    /\ folder_no' = 0
    /\ json_files_info' = <<>>
    /\ file_no' = 0
    /\ json_data' = <<>>
    /\ IF fault = "log"
       THEN /\ sync_log_id' = 0
            /\ folders' = <<>>
            /\ outcome' = [op |-> "ingest", kind |-> "raised",
                           error |-> "UnboundLocalError"]
            /\ pc' = "idle"
            /\ UNCHANGED db
       ELSE /\ db' = [db EXCEPT !.data_sync_log = Append(@, IngestStartedRow(folder))]
            /\ sync_log_id' = Len(db'.data_sync_log)
            /\ IF fault = "listing" /\ folder = NoNumber
               THEN /\ folders' = <<>>
                    /\ outcome' = NoOutcome
                    /\ pc' = "ingest_except"
               ELSE /\ folders' = IF folder # NoNumber THEN <<folder>> ELSE listed
                    /\ IF folders' = <<>>
                       THEN /\ outcome' = [op |-> "ingest", kind |-> "returned",
                                           value |-> NoFoldersResult]
                            /\ pc' = "idle"
                       ELSE /\ outcome' = NoOutcome
                            /\ pc' = "ingest_folder"
    /\ tx' = db'
    /\ UNCHANGED <<recon_status, reconLocals, syncLocals, work_items, feedbackLocals,
                   aggLocals, sessionLocals>>

\* `for folder in folders`: the files of the next folder are listed
ingest_folder(n, fault) ==
    /\ pc = "ingest_folder"
    /\ folder_no < Len(folders)
    /\ folder_no' = folder_no + 1
    /\ IF fault
       THEN /\ pc' = "ingest_except"
            /\ UNCHANGED <<json_files_info, file_no>>
       ELSE /\ json_files_info' = FilesInfo(folders[folder_no'], n)
            /\ file_no' = 0
            /\ pc' = IF n = 0 THEN "ingest_folder" ELSE "ingest_file"
    /\ UNCHANGED <<db, tx, op, outcome, recon_status, reconLocals, syncLocals,
                   work_items, feedbackLocals, aggLocals, sessionLocals, specific_folder, folders,
                   json_data, total_files_processed, total_work_items,
                   ingest_errors, sync_log_id>>

\* one turn of `for json_file_info in json_files_info`: read, extract,
\* insert_work_items (a session and a commit of its own), count
ingest_file(object, fault) ==
    /\ pc = "ingest_file"
    /\ file_no < Len(json_files_info)
    /\ file_no' = file_no + 1
    /\ LET info == json_files_info[file_no']
           parsed == read_json_from_s3(object)
       IN  /\ json_data' = parsed
           /\ IF NotJsonData(parsed)
              THEN /\ ingest_errors' =
                          Append(ingest_errors, <<"Could not read", info.key>>)
                   /\ UNCHANGED <<db, total_files_processed, total_work_items>>
              ELSE LET items == extract_work_items_from_json(
                                    parsed[1], folders[folder_no], info.key[2],
                                    info.last_modified)
                   IN  IF items = <<>>
                       THEN /\ total_files_processed' = total_files_processed + 1
                            /\ UNCHANGED <<db, total_work_items, ingest_errors>>
                       ELSE IF fault \/ RepeatsKey(items)
                       THEN /\ ingest_errors' =
                                   Append(ingest_errors, <<"Error processing", info.key>>)
                            /\ UNCHANGED <<db, total_files_processed,
                                           total_work_items>>
                       ELSE /\ db' = Commit([db EXCEPT
                                                !.work_item = Upsert(@, items)])
                            /\ total_work_items' = total_work_items + Len(items)
                            /\ total_files_processed' = total_files_processed + 1
                            /\ UNCHANGED ingest_errors
    /\ tx' = db'
    /\ pc' = IF file_no' < Len(json_files_info) THEN "ingest_file" ELSE "ingest_folder"
    /\ UNCHANGED <<op, outcome, recon_status, reconLocals, syncLocals, work_items,
                   feedbackLocals, aggLocals, sessionLocals, specific_folder, folders, folder_no,
                   json_files_info, sync_log_id>>

\* after the last folder: data_sync_service._update_is_delivered_status()
ingest_reconcile ==
    /\ pc = "ingest_folder"
    /\ folder_no = Len(folders)
    /\ pc' = "uds_query_links"
    /\ recon_status' = "none"
    /\ tx' = db
    /\ UNCHANGED <<db, op, outcome, reconLocals, syncLocals, itemLocals>>

\* lines 368-391: the reconciliation's exception, if any, is added to errors;
\* the DataSyncLog row is closed and committed; the result is returned
ingest_close(fault) ==
    /\ pc = "uds_return"
    /\ op = "ingest"
    /\ LET errs == IF recon_status = "raised"
                   THEN Append(ingest_errors, <<"Failed to update is_delivered status">>)
                   ELSE ingest_errors
       IN  /\ ingest_errors' = errs
           /\ IF fault
              THEN /\ pc' = "ingest_except"
                   /\ UNCHANGED <<db, outcome>>
              ELSE /\ db' = [db EXCEPT !.data_sync_log[sync_log_id] =
                                 IngestClosedRow(@, total_work_items, errs)]
                   /\ outcome' = [op |-> "ingest", kind |-> "returned",
                                  value |-> IngestResult(total_files_processed,
                                                         total_work_items, errs)]
                   /\ pc' = "idle"
    /\ tx' = db'
    /\ UNCHANGED <<op, recon_status, reconLocals, syncLocals, work_items,
                   feedbackLocals, aggLocals, sessionLocals, specific_folder, folders, folder_no,
                   json_files_info, file_no, json_data, total_files_processed,
                   total_work_items, sync_log_id>>

\* except Exception as e: the row is marked failed and committed, unless that
\* fails too; the exception is raised again
ingest_except(fault) ==
    /\ pc = "ingest_except"
    /\ IF fault
       THEN UNCHANGED db
       ELSE db' = [db EXCEPT !.data_sync_log[sync_log_id] =
                      IngestFailedRow(@, "Exception")]
    /\ tx' = db'
    /\ outcome' = [op |-> "ingest", kind |-> "raised", error |-> "Exception"]
    /\ pc' = "idle"
    /\ UNCHANGED <<op, recon_status, reconLocals, syncLocals, itemLocals>>

InitIngest ==
    /\ db \in {EmptyStore, LoadedStore(1)}
    /\ tx = db
    /\ pc = "idle"
    /\ op = "none"
    /\ outcome = NoOutcome
    /\ recon_status = "none"
    /\ delivered_colab_link_ids = {}
    /\ delivered_task_ids = {}
    /\ InitSyncLocals
    /\ InitItemLocals

NextIngest ==
    \/ \E folder \in {NoNumber} \cup FolderNames, listed \in FolderLists,
          fault \in {"none", "log", "listing"} : ingest_from_s3(folder, listed, fault)
    \/ \E n \in 0..MaxFiles, fault \in BOOLEAN : ingest_folder(n, fault)
    \/ \E object \in S3Objects, fault \in BOOLEAN : ingest_file(object, fault)
    \/ ingest_reconcile
    \/ update_is_delivered_status
    \/ \E fault \in BOOLEAN : ingest_close(fault)
    \/ \E fault \in BOOLEAN : ingest_except(fault)

SpecIngest == InitIngest /\ [][NextIngest]_vars

(***************************************************************************)
(* Properties of ingest_from_s3.                                           *)
(***************************************************************************)
IngestReturned == pc = "idle" /\ outcome.op = "ingest" /\ outcome.kind = "returned"

\* the work items of a manifest that have no workItemId
LackingId(parsed) ==
    IF NotJsonData(parsed) \/ "workitems" \notin DOMAIN parsed[1] THEN {}
    ELSE {k \in DOMAIN parsed[1].workitems : parsed[1].workitems[k].workItemId = None}

\* the run read one manifest, of two work items: one complete, one without
\* workItemId; nothing else went wrong
OneManifestOneLackingId ==
    /\ IngestReturned
    /\ Len(folders) = 1
    /\ Len(json_files_info) = 1
    /\ ~NotJsonData(json_data)
    /\ "workitems" \in DOMAIN json_data[1]
    /\ Len(json_data[1].workitems) = 2
    /\ Cardinality(LackingId(json_data)) = 1
    /\ \A k \in DOMAIN ingest_errors : ingest_errors[k][1] # "Error processing"
    /\ recon_status = "ok"

\* C15: a run over one manifest of two work items, one of them without
\* workItemId, returns work_items_ingested = 1, files_processed = 1 and an
\* errors list of one entry, which names the manifest of the skipped item; and
\* whenever a manifest is processed, errors grows by at least one entry for
\* each of its work items that has no workItemId.
C15_MissingIdReported ==
    /\ [](OneManifestOneLackingId =>
             /\ outcome.value.work_items_ingested = 1
             /\ outcome.value.files_processed = 1
             /\ ~outcome.value.errors.none
             /\ Len(outcome.value.errors.list) = 1
             /\ json_files_info[1].key \in
                    {outcome.value.errors.list[1][k] :
                        k \in DOMAIN outcome.value.errors.list[1]})
    /\ [][(pc = "ingest_file" /\ file_no' = file_no + 1) =>
             Len(ingest_errors') >= Len(ingest_errors)
                                       + Cardinality(LackingId(json_data'))]_vars

\* what the code does in the case of C15: the item is skipped, the other one
\* is ingested, the file is counted, and no error is recorded
C15_SkippedSilently ==
    OneManifestOneLackingId =>
        /\ outcome.value.work_items_ingested = 1
        /\ outcome.value.files_processed = 1
        /\ outcome.value.errors.none
        /\ outcome.value.status = "completed"

\* the entries of errors left by manifests that could not be read or parsed
CouldNotRead(errs) == {k \in DOMAIN errs : errs[k][1] = "Could not read"}

\* the part of C16 about the manifests: a manifest that cannot be read or
\* parsed adds one entry with its key to errors, is not counted, changes no
\* table and leaves the loop running; a run that went through its folders
\* returns after all of them, after the reconciliation, with status
\* completed_with_errors and all entries when there is one
C16_FailedManifestsTolerated ==
    /\ [][(pc = "ingest_file" /\ file_no' = file_no + 1 /\ NotJsonData(json_data')) =>
             /\ pc' \in {"ingest_file", "ingest_folder"}
             /\ ingest_errors' = Append(ingest_errors,
                                        <<"Could not read", json_files_info[file_no'].key>>)
             /\ total_files_processed' = total_files_processed
             /\ db' = db]_vars
    /\ []((IngestReturned /\ folders # <<>>) =>
             /\ folder_no = Len(folders)
             /\ file_no = Len(json_files_info)
             /\ recon_status \in {"ok", "raised"}
             /\ (CouldNotRead(ingest_errors) # {} =>
                    /\ outcome.value.status = "completed_with_errors"
                    /\ outcome.value.errors = [none |-> FALSE, list |-> ingest_errors]))

\* C16: a manifest that cannot be read or parsed does not end the run: the
\* other manifests of all folders are processed, the reconciliation is
\* invoked after them, the failed manifest is not counted in files_processed,
\* the status returned is completed_with_errors with an entry for each failed
\* manifest; and a status of completed is returned only with no error in the
\* result.
C16_PartialFailure ==
    /\ C16_FailedManifestsTolerated
    /\ [](IngestReturned =>
             (outcome.value.status = "completed" => outcome.value.errors.none))

\* a run returned after a manifest of its first folder could not be read and
\* a manifest of its second folder was upserted
C16_Scenario ==
    /\ IngestReturned
    /\ Len(folders) = 2
    /\ CouldNotRead(ingest_errors) # {}
    /\ ingest_errors[1][2][1] = 1
    /\ outcome.value.files_processed = 1
    /\ outcome.value.work_items_ingested > 0
    /\ \E w \in DOMAIN db.work_item : db.work_item[w].ingestion_date = 2

IngestEnded == pc = "idle" /\ outcome.op = "ingest"

\* C20: when ingest_from_s3 has returned or raised, the DataSyncLog row it
\* opened is no longer started: it has a terminal status and a completion
\* time; this includes the run that finds no folder.
C20_LogBracketsRun ==
    (IngestEnded /\ sync_log_id \in DOMAIN db.data_sync_log) =>
        /\ db.data_sync_log[sync_log_id].sync_status \in
               {"completed", "completed_with_errors", "failed"}
        /\ db.data_sync_log[sync_log_id].sync_completed_at # None

\* the runs of C20 that close their row: those that return after the loop
\* over the folders
C20_ClosedAfterFolders ==
    (IngestReturned /\ folders # <<>>) =>
        /\ db.data_sync_log[sync_log_id].sync_status = outcome.value.status
        /\ db.data_sync_log[sync_log_id].sync_completed_at # None
        /\ db.data_sync_log[sync_log_id].records_synced = total_work_items

(***************************************************************************)
(* _update_work_items on frames of several rows.                           *)
(***************************************************************************)
MaxBatchRows == 2      \* rows of a feedback frame

InitFeedback ==
    /\ db \in {[EmptyStore EXCEPT !.work_item = w] : w \in WorkItemTables}
    /\ tx = db
    /\ pc = "idle"
    /\ op = "none"
    /\ outcome = NoOutcome
    /\ recon_status = "none"
    /\ delivered_colab_link_ids = {}
    /\ delivered_task_ids = {}
    /\ InitSyncLocals
    /\ InitItemLocals

NextFeedback ==
    \/ \E n \in 0..MaxBatchRows : update_work_items(n)
    \/ \E r \in FrameRows, fault \in BOOLEAN : uwi_row(r, fault)
    \/ \E fault \in BOOLEAN : uwi_commit(fault)

SpecFeedback == InitFeedback /\ [][NextFeedback]_vars

(***************************************************************************)
(* Properties of a feedback batch.                                         *)
(***************************************************************************)
\* the row just iterated names a work item of the table
C17_Known ==
    \E w \in DOMAIN tx.work_item : C7_IsTrimOf(Text(w), row'.work_item_id)

C18_OneTransaction ==
    /\ [][(pc = "uwi_loop" /\ pc' = "uwi_loop") => db' = db]_vars
    /\ [][(pc = "uwi_loop" /\ pc' = "idle") =>
             /\ row_no = df_len
             /\ \/ outcome'.kind = "returned" /\ db' = tx
                \/ outcome'.kind = "raised" /\ db' = db /\ tx' = db]_vars

\* both rows of a frame have been applied in the session, to feedback and to
\* status, and the committed work item shows neither
C18_Witness ==
    /\ pc = "uwi_loop"
    /\ df_len = 2
    /\ row_no = df_len
    /\ updated = 2
    /\ tx.work_item["w1"].task_level_feedback = "fb"
    /\ tx.work_item["w1"].turing_status = "Rework"
    /\ db.work_item["w1"].task_level_feedback = None
    /\ db.work_item["w1"].turing_status = "Delivered"
    /\ db.work_item["w1"].client_status = Text("Pending")

(***************************************************************************)
(* One table sync called on its own, the writes of its DataSyncLog row     *)
(* failing or not.                                                         *)
(***************************************************************************)
MaxSyncRuns == 1       \* table syncs that open a DataSyncLog row

\* sync_contributor / sync_task_reviewed_info / sync_task / sync_review_detail
sync_table(k, st) ==
    /\ pc = "idle"
    /\ Len(db.data_sync_log) < MaxSyncRuns
    /\ op' = "sync_table"
    /\ sync_type' = st
    /\ cur' = k
    /\ results' = <<>>
    /\ outcome' = NoOutcome
    /\ pc' = "st_log_start"
    /\ UNCHANGED <<db, tx, recon_status, reconLocals, log_id, data, i, err, itemLocals>>

\* return True / return False
sync_table_return ==
    /\ pc = "sa_next"
    /\ op = "sync_table"
    /\ outcome' = [op |-> "sync_table", kind |-> "returned",
                   value |-> results[table_name]]
    /\ pc' = "idle"
    /\ sync_type' = "none"
    /\ results' = <<>>
    /\ cur' = 0
    /\ log_id' = 0
    /\ data' = <<>>
    /\ i' = 0
    /\ err' = "none"
    /\ UNCHANGED <<db, tx, op, recon_status, reconLocals, itemLocals>>

InitTableSync ==
    /\ db \in {EmptyStore, LoadedStore(1)}
    /\ tx = db
    /\ pc = "idle"
    /\ op = "none"
    /\ outcome = NoOutcome
    /\ recon_status = "none"
    /\ delivered_colab_link_ids = {}
    /\ delivered_task_ids = {}
    /\ InitSyncLocals
    /\ InitItemLocals

NextTableSync ==
    \/ \E k \in DOMAIN sync_order, st \in SyncTypes : sync_table(k, st)
    \/ \E fault \in BOOLEAN : log_sync_start(fault)
    \/ \E n \in 0..MaxRows, fault \in BOOLEAN : sync_fetch(n, fault)
    \/ \E fault \in BOOLEAN : sync_delete(fault)
    \/ \E fault \in BOOLEAN : sync_insert_batch(fault)
    \/ \E fault \in BOOLEAN : sync_insert_all(fault)
    \/ \E fault \in BOOLEAN : sync_complete(fault)
    \/ \E fault \in BOOLEAN : sync_except(fault)
    \/ sync_table_return

SpecTableSync == InitTableSync /\ [][NextTableSync]_vars

(***************************************************************************)
(* Properties of the DataSyncLog row of a table sync.                      *)
(***************************************************************************)
TableSyncReturning == pc = "sa_next" /\ op = "sync_table"

\* the row as log_sync_complete leaves it for the result of the sync
C19_ClosedFor(result) ==
    IF result
    THEN [table_name |-> table_name, sync_type |-> sync_type,
          sync_status |-> "completed", records_synced |-> Len(data),
          error_message |-> "none"]
    ELSE [table_name |-> table_name, sync_type |-> sync_type,
          sync_status |-> "failed", records_synced |-> 0, error_message |-> err]

\* no step of a table sync after log_sync_start adds a row
C19_NoOtherRow ==
    [][(pc \in SyncPcs \ {"st_log_start"}) =>
          Len(db'.data_sync_log) = Len(db.data_sync_log)]_vars

\* a row that is not started is never changed
C19_ClosedRowsKept ==
    [][\A k \in DOMAIN db.data_sync_log :
          db.data_sync_log[k].sync_status # "started" =>
              /\ k \in DOMAIN db'.data_sync_log
              /\ db'.data_sync_log[k] = db.data_sync_log[k]]_vars

\* C19: a table sync adds exactly one DataSyncLog row, started, with its table
\* and sync type; when the sync returns, that row is completed with
\* records_synced = the number of fetched rows if it returns True, and failed
\* with the exception text and records_synced 0 if it returns False; a row
\* that is closed is never changed.
C19_LogRowLifecycle ==
    /\ [][pc = "st_log_start" =>
             /\ db'.data_sync_log =
                    Append(db.data_sync_log, StartedLogRow(table_name, sync_type))
             /\ log_id' = Len(db'.data_sync_log)]_vars
    /\ C19_NoOtherRow
    /\ [](TableSyncReturning =>
             /\ log_id \in DOMAIN db.data_sync_log
             /\ db.data_sync_log[log_id] = C19_ClosedFor(results[table_name]))
    /\ C19_ClosedRowsKept

\* what holds of the row when its writes can fail: a table sync adds one
\* started row with its table and sync type, or none when writing it fails; when the sync returns, the row it
\* added is closed as the result says, or is still as it was started when
\* writing the closure failed; a row that is closed is never changed.
C19_LogRowLifecycleWhenWritten ==
    /\ [][pc = "st_log_start" =>
             \/ /\ db'.data_sync_log =
                       Append(db.data_sync_log, StartedLogRow(table_name, sync_type))
                /\ log_id' = Len(db'.data_sync_log)
             \/ /\ db'.data_sync_log = db.data_sync_log
                /\ log_id' = 0]_vars
    /\ C19_NoOtherRow
    /\ [](TableSyncReturning =>
             IF log_id \in DOMAIN db.data_sync_log
             THEN db.data_sync_log[log_id] \in
                     {C19_ClosedFor(results[table_name]),
                      StartedLogRow(table_name, sync_type)}
             ELSE log_id = 0)
    /\ C19_ClosedRowsKept

(***************************************************************************)
(* Filters of the getters.                                                 *)
(***************************************************************************)
\* the undelivered review rows that pass every given row filter
C21_Matching ==
    {x \in ReviewRows(db) :
        /\ x.is_delivered = "False"
        /\ Truthy(filters.domain) => x.domain = filters.domain
        /\ Truthy(filters.quality_dimension) => x.name = filters.quality_dimension}

\* C21: the domain aggregation called with filters returns groups made of
\* the rows that pass all the given row filters together, and when
\* min_task_count is given every returned group has at least that many tasks.
C21_MinTaskCountApplied ==
    GetterDone("get_domain_aggregation") =>
        /\ outcome.kind = "returned"
        /\ \A n \in DOMAIN outcome.value :
              LET item == outcome.value[n]
              IN  /\ filters.min_task_count # NoNumber =>
                        item.task_count >= filters.min_task_count
                  /\ item.task_count <=
                        Cardinality({r.conversation_id :
                                        r \in {x \in C21_Matching :
                                                  x.domain = item.domain}})
                  /\ \A q \in DOMAIN item.quality_dimensions :
                        \E x \in C21_Matching :
                            /\ x.domain = item.domain
                            /\ x.name = item.quality_dimensions[q].name

(***************************************************************************)
(* Failures of the reads an aggregation depends on.                        *)
(***************************************************************************)
\* the names a successful fetch of the allow-list gives
C22_Enabled == {name \in enabled_dimensions : Truthy(name)}

\* the iterations whose fetch of the allow-list failed: nothing was cached
\* and the fetch gave the empty set although names are enabled
C22_FetchFailed ==
    {k \in DOMAIN allowed_dimensions :
        allowed_dimensions[k] = {} /\ C22_Enabled # {}}

\* the aggregation of the rows 1..k whose fetch succeeded
RECURSIVE C22_WithoutFailed(_)
C22_WithoutFailed(k) ==
    IF k = 0 THEN <<>>
    ELSE IF k \in C22_FetchFailed THEN C22_WithoutFailed(k - 1)
    ELSE AccumulateRow(C22_WithoutFailed(k - 1), query_results[k], group_key,
                       IdField(agg_fn), C22_Enabled)

MaxWeekDays == 15

\* the dates a task row can carry
TaskDates ==
    {NoDate} \cup {<<n>> : n \in (0 - MaxWeekDays * TicksPerDay)..(MaxWeekDays * TicksPerDay)}

StartTexts ==
    {[kind |-> "empty", day |-> 0], [kind |-> "other", day |-> 0],
     DateText(ProjectStartDay), DateText(ProjectStartDay + 1)}

\* a direct call calculate_week_number(task_date, project_start_date) with
\* the arguments held in row
call_calculate_week_number ==
    /\ pc = "idle"
    /\ outcome = NoOutcome
    /\ op' = "calculate_week_number"
    /\ outcome' = [op |-> "calculate_week_number", kind |-> "returned",
                   value |-> calculate_week_number(row.updated_at,
                                                   row.project_start_date)]
    /\ UNCHANGED <<db, tx, pc, recon_status, reconLocals, syncLocals, work_items,
                   feedbackLocals, otherLocals>>

\* the body of the loop of sync_task for the row held in row
week_of_task_row ==
    /\ pc = "idle"
    /\ outcome = NoOutcome
    /\ op' = "sync_task"
    /\ outcome' = [op |-> "sync_task", kind |-> "returned",
                   value |-> week_number_of(row, row.project_start_date)]
    /\ UNCHANGED <<db, tx, pc, recon_status, reconLocals, syncLocals, work_items,
                   feedbackLocals, otherLocals>>

InitWeek ==
    /\ db = EmptyStore
    /\ tx = db
    /\ pc = "idle"
    /\ op = "none"
    /\ outcome = NoOutcome
    /\ recon_status = "none"
    /\ delivered_colab_link_ids = {}
    /\ delivered_task_ids = {}
    /\ InitSyncLocals
    /\ work_items = <<>>
    /\ df_len = 0
    /\ row_no = 0
    /\ row \in [updated_at : TaskDates, created_at : {NoDate, DateTime(0, 0)},
                project_start_date : StartTexts]
    /\ updated = 0
    /\ not_found = 0
    /\ errors = 0
    /\ InitOtherLocals

NextWeek ==
    \/ call_calculate_week_number
    \/ week_of_task_row

SpecWeek == InitWeek /\ [][NextWeek]_vars

\* the task date lies d whole days after the start date: at or after the
\* midnight that begins day d, before the next one
C23_DaysFromStart(task_date, start_day, d) ==
    /\ (start_day + d) * TicksPerDay <= task_date[1]
    /\ task_date[1] < (start_day + d + 1) * TicksPerDay

C23_BeforeStart ==
    /\ outcome.op = "calculate_week_number"
    /\ row.project_start_date = DateText(ProjectStartDay + 1)
    /\ row.updated_at = DateTime(ProjectStartDay, 1)
    /\ outcome.value = 1

(***************************************************************************)
(* Overlapping runs of sync_review_detail: a scheduled sync_all_tables and *)
(* a manual one are started by different threads and no lock excludes      *)
(* them.  runs[p] holds the locals of run p; every statement of a run is   *)
(* committed by the commit that follows it in the code, so between two     *)
(* steps a session holds nothing that db does not.                         *)
(***************************************************************************)
MaxOverlap == 2

RunIds == 1..MaxOverlap

OverlapTable == "review_detail"

IdleRun ==
    [pc |-> "idle", sync_type |-> "none", log_id |-> 0, data |-> <<>>, i |-> 0,
     err |-> "none", result |-> "none"]

\* log_id = self.log_sync_start('review_detail', sync_type)
overlap_log_sync_start(p, st, fault) ==
    /\ runs[p].pc = "idle"
    /\ db' = IF fault THEN db
             ELSE [db EXCEPT !.data_sync_log =
                                Append(@, StartedLogRow(OverlapTable, st))]
    /\ runs' = [runs EXCEPT ![p].pc = "st_fetch", ![p].sync_type = st,
                            ![p].log_id = IF fault THEN 0 ELSE Len(db'.data_sync_log)]
    /\ UNCHANGED <<tx, pc, op, outcome, recon_status, reconLocals, syncLocals,
                   work_items, feedbackLocals, aggLocals, ingestLocals, filters,
                   observed>>

\* results = query_job.result(); data = [dict(row) for row in results]
overlap_fetch(p, n, fault) ==
    /\ runs[p].pc = "st_fetch"
    /\ runs' = IF fault
               THEN [runs EXCEPT ![p].pc = "st_except", ![p].err = "warehouse error"]
               ELSE [runs EXCEPT ![p].pc = "st_delete",
                                 ![p].data = Materialize(OverlapTable,
                                                 WarehouseResult(OverlapTable, n))]
    /\ UNCHANGED <<db, tx, pc, op, outcome, recon_status, reconLocals, syncLocals,
                   work_items, feedbackLocals, aggLocals, ingestLocals, filters,
                   observed>>

\* session.execute(delete(ReviewDetail)); session.commit()
overlap_delete(p, fault) ==
    /\ runs[p].pc = "st_delete"
    /\ IF fault
       THEN /\ runs' = [runs EXCEPT ![p].pc = "st_except", ![p].err = "database error"]
            /\ UNCHANGED db
       ELSE /\ db' = Commit([db EXCEPT ![OverlapTable] = DeleteAll(@)])
            /\ runs' = [runs EXCEPT ![p].i = 0,
                                    ![p].pc = IF Len(runs[p].data) = 0
                                              THEN "st_complete" ELSE "st_insert"]
    /\ UNCHANGED <<tx, pc, op, outcome, recon_status, reconLocals, syncLocals,
                   work_items, feedbackLocals, aggLocals, ingestLocals, filters,
                   observed>>

\* one turn of `for i in range(0, len(data), batch_size)`:
\* session.bulk_save_objects(objects); session.commit()
overlap_insert_batch(p, fault) ==
    /\ runs[p].pc = "st_insert"
    /\ runs[p].i < Len(runs[p].data)
    /\ LET batch == Batch(runs[p].data, runs[p].i, BatchSize)
       IN  IF fault \/ ~Constructible(OverlapTable, batch)
                    \/ KeyConflict(OverlapTable, db[OverlapTable], batch)
           THEN /\ runs' = [runs EXCEPT ![p].pc = "st_except",
                                        ![p].err = "database error"]
                /\ UNCHANGED db
           ELSE /\ db' = Commit([db EXCEPT ![OverlapTable] = BulkSave(@, batch)])
                /\ runs' = [runs EXCEPT
                               ![p].i = @ + BatchSize,
                               ![p].pc = IF runs[p].i + BatchSize < Len(runs[p].data)
                                         THEN "st_insert" ELSE "st_complete"]
    /\ UNCHANGED <<tx, pc, op, outcome, recon_status, reconLocals, syncLocals,
                   work_items, feedbackLocals, aggLocals, ingestLocals, filters,
                   observed>>

\* self.log_sync_complete(log_id, len(data), True); return True
overlap_complete(p, fault) ==
    /\ runs[p].pc = "st_complete"
    /\ db' = IF fault THEN db
             ELSE [db EXCEPT !.data_sync_log =
                                LogComplete(@, runs[p].log_id, Len(runs[p].data),
                                            TRUE, "none")]
    /\ runs' = [runs EXCEPT ![p].pc = "returned", ![p].result = "True"]
    /\ UNCHANGED <<tx, pc, op, outcome, recon_status, reconLocals, syncLocals,
                   work_items, feedbackLocals, aggLocals, ingestLocals, filters,
                   observed>>

\* except Exception as e: self.log_sync_complete(log_id, 0, False, str(e)); return False
overlap_except(p, fault) ==
    /\ runs[p].pc = "st_except"
    /\ db' = IF fault THEN db
             ELSE [db EXCEPT !.data_sync_log =
                                LogComplete(@, runs[p].log_id, 0, FALSE, runs[p].err)]
    /\ runs' = [runs EXCEPT ![p].pc = "returned", ![p].result = "False"]
    /\ UNCHANGED <<tx, pc, op, outcome, recon_status, reconLocals, syncLocals,
                   work_items, feedbackLocals, aggLocals, ingestLocals, filters,
                   observed>>

InitOverlap ==
    /\ db \in {EmptyStore, LoadedStore(1)}
    /\ tx = db
    /\ pc = "idle"
    /\ op = "none"
    /\ outcome = NoOutcome
    /\ recon_status = "none"
    /\ delivered_colab_link_ids = {}
    /\ delivered_task_ids = {}
    /\ InitSyncLocals
    /\ work_items = <<>>
    /\ df_len = 0
    /\ row_no = 0
    /\ row = NoRow
    /\ updated = 0
    /\ not_found = 0
    /\ errors = 0
    /\ InitAggLocals
    /\ InitIngestLocals
    /\ filters = NoFilters
    /\ observed = <<>>
    /\ runs = [p \in RunIds |-> IdleRun]

NextOverlap ==
    \/ \E p \in RunIds, st \in {"scheduled", "manual"}, fault \in BOOLEAN :
          overlap_log_sync_start(p, st, fault)
    \/ \E p \in RunIds, n \in 0..MaxRows, fault \in BOOLEAN : overlap_fetch(p, n, fault)
    \/ \E p \in RunIds, fault \in BOOLEAN : overlap_delete(p, fault)
    \/ \E p \in RunIds, fault \in BOOLEAN : overlap_insert_batch(p, fault)
    \/ \E p \in RunIds, fault \in BOOLEAN : overlap_complete(p, fault)
    \/ \E p \in RunIds, fault \in BOOLEAN : overlap_except(p, fault)

SpecOverlap == InitOverlap /\ [][NextOverlap]_vars

\* every run has returned True
C24_AllSucceeded == \A p \in RunIds : runs[p].result = "True"

RECURSIVE C24_AllFetched(_)
C24_AllFetched(p) ==
    IF p = 0 THEN EmptyBag ELSE SeqToBag(runs[p].data) (+) C24_AllFetched(p - 1)

\* C24 as stated: once the overlapping runs have all returned success, the
\* table holds exactly the rows of one of the fetched result sets, each once.
C24_OneResultSet ==
    C24_AllSucceeded =>
        \E p \in RunIds : db[OverlapTable] = SeqToBag(runs[p].data)

\* C24 amended: once the overlapping runs have all returned success, the
\* table holds every row of at least one of the fetched result sets, and
\* nothing but rows of the fetched result sets, no row more often than the
\* result sets together hold it.
C24_SomeResultSetWhole ==
    C24_AllSucceeded =>
        /\ \E p \in RunIds : SeqToBag(runs[p].data) \sqsubseteq db[OverlapTable]
        /\ db[OverlapTable] \sqsubseteq C24_AllFetched(MaxOverlap)

\* both result sets, of two rows and of one, are in the table together
C24_Witness ==
    /\ C24_AllSucceeded
    /\ Len(runs[1].data) = 2
    /\ Len(runs[2].data) = 1
    /\ db[OverlapTable] = SeqToBag(runs[1].data) (+) SeqToBag(runs[2].data)

(***************************************************************************)
(* A reader beside the reconciliation: another session that selects the    *)
(* is_delivered flags of Task and ReviewDetail, as the aggregation queries *)
(* do, and sees what is committed.                                         *)
(***************************************************************************)
FlagsOf(store) == [task |-> store.task, review_detail |-> store.review_detail]

\* session.query(ReviewDetail, ...).outerjoin(Task, ...).all() in a session
\* of its own, at whatever step the reconciliation is
read_is_delivered ==
    /\ observed = <<>>
    /\ observed' = <<[flags |-> FlagsOf(db), at |-> pc]>>
    /\ UNCHANGED <<db, tx, pc, op, outcome, recon_status, reconLocals, syncLocals,
                   work_items, feedbackLocals, aggLocals, ingestLocals, filters, runs>>

NextReconRead ==
    \/ NextRecon
    \/ read_is_delivered

SpecReconRead == InitRecon /\ [][NextReconRead]_vars

\* C25: the flags a concurrent reader can read change only in the step that
\* commits the reconciliation, and in that step all Task and ReviewDetail
\* flags take their values of after the reconciliation together; what a
\* reader reads at any step is the committed flag set of that step.
C25_NoHalfUpdatedFlags ==
    [][/\ FlagsOf(db') # FlagsOf(db) => (pc = "uds_commit" /\ Reconciled(db'))
       /\ observed' # observed => observed'[1].flags = FlagsOf(db)]_vars

\* a read made after the session had cleared and set the Task flags, before
\* the commit that changed the flags of both tables
C25_Witness ==
    /\ observed # <<>>
    /\ observed[1].at = "uds_clear_rd"
    /\ ReconCompleted
    /\ observed[1].flags.task # db.task
    /\ observed[1].flags.review_detail # db.review_detail

(***************************************************************************)
(* A reader beside a table sync: an aggregation query in a session of its  *)
(* own, which sees the committed rows of the table being replaced.         *)
(***************************************************************************)
MaxReads == 2

\* results = query.all() of an aggregation, run while the sync is at step pc
read_table ==
    /\ cur \in DOMAIN sync_order
    /\ Len(observed) < MaxReads
    /\ observed' = Append(observed, [rows |-> db[table_name], at |-> pc])
    /\ UNCHANGED <<db, tx, pc, op, outcome, recon_status, reconLocals, syncLocals,
                   work_items, feedbackLocals, aggLocals, ingestLocals, filters, runs>>

\* one table sync whose writes to the log table succeed, and the reader
NextSyncRead ==
    \/ \E k \in DOMAIN sync_order, st \in SyncTypes : sync_table(k, st)
    \/ log_sync_start(FALSE)
    \/ \E n \in 0..MaxRows, fault \in BOOLEAN : sync_fetch(n, fault)
    \/ \E fault \in BOOLEAN : sync_delete(fault)
    \/ \E fault \in BOOLEAN : sync_insert_batch(fault)
    \/ \E fault \in BOOLEAN : sync_insert_all(fault)
    \/ sync_complete(FALSE)
    \/ sync_except(FALSE)
    \/ sync_table_return
    \/ read_table

SpecSyncRead == InitTableSync /\ [][NextSyncRead]_vars

\* C26: what a reader gets from the target table while a full-replace sync
\* is in its batch loop is the batches committed so far and not yet the
\* whole result set: nothing right after the delete, although the table
\* held rows before and the result set is not empty.
C26_ReplaceVisibleToReaders ==
    [][(observed' # observed /\ pc = "st_insert") =>
          /\ observed'[Len(observed')].rows = SeqToBag(SubSeq(data, 1, i))
          /\ i < Len(data)]_vars

\* a reader found rows before the delete and none after it, the new rows
\* not yet inserted
C26_Witness ==
    /\ Len(observed) = 2
    /\ observed[1].at = "st_delete"
    /\ observed[1].rows # EmptyBag
    /\ observed[2].at = "st_insert"
    /\ observed[2].rows = EmptyBag
    /\ pc = "st_insert"
    /\ i = 0
    /\ Len(data) > 0

(***************************************************************************)
(* Feedback batches and reconciliations over one store.                    *)
(***************************************************************************)
NextFeedbackRecon ==
    \/ \E n \in 0..MaxFeedbackRows : update_work_items(n)
    \/ \E r \in FrameRows, fault \in BOOLEAN : uwi_row(r, fault)
    \/ \E fault \in BOOLEAN : uwi_commit(fault)
    \/ ReconcileCall
    \/ update_is_delivered_status
    \/ ReconcileReturn

\* the stores a sync leaves, no row flagged yet, with MaxTasks tasks and
\* the work item the frames name
InitFeedbackRecon ==
    /\ InitRecon
    /\ Cardinality(TaskRows(db)) = MaxTasks
    /\ "w1" \in DOMAIN db.work_item
    /\ \A t \in TaskRows(db) : t.is_delivered = "False"
    /\ \A r \in ReviewRows(db) : r.is_delivered = "False"

SpecFeedbackRecon == InitFeedbackRecon /\ [][NextFeedbackRecon]_vars

\* store new differs from store old at most in the client_status,
\* turing_status, task_level_feedback and error_categories of work items
C27_SameButFeedback(old, new) ==
    /\ DOMAIN new.work_item = DOMAIN old.work_item
    /\ \A w \in DOMAIN old.work_item :
          [new.work_item[w] EXCEPT
              !.client_status = old.work_item[w].client_status,
              !.turing_status = old.work_item[w].turing_status,
              !.task_level_feedback = old.work_item[w].task_level_feedback,
              !.error_categories = old.work_item[w].error_categories]
          = old.work_item[w]
    /\ new.task = old.task
    /\ new.review_detail = old.review_detail

\* after a completed reconciliation the Task rows that carry the link of a
\* work item in Rework, and their ReviewDetail rows, are flagged "True"
C27_ReworkCountsAsDelivered ==
    ReconCompleted =>
        \A w \in DOMAIN db.work_item :
            (db.work_item[w].turing_status = "Rework"
                 /\ db.work_item[w].colab_link # NullLink) =>
                \A t \in TaskRows(db) :
                    t.colab_link = db.work_item[w].colab_link =>
                        /\ t.is_delivered = "True"
                        /\ \A r \in ReviewRows(db) :
                              r.conversation_id = t.id => r.is_delivered = "True"

\* C27: no step of a feedback batch inserts or deletes a work item, changes
\* a column of a work item other than client_status, turing_status,
\* task_level_feedback and error_categories, or changes a Task or
\* ReviewDetail row; and a work item in Rework still has its Task and
\* ReviewDetail rows flagged "True" by a completed reconciliation.
C27_FeedbackLeavesLinks ==
    /\ [][pc = "uwi_loop" =>
             (C27_SameButFeedback(db, db') /\ C27_SameButFeedback(tx, tx'))]_vars
    /\ []C27_ReworkCountsAsDelivered

\* a reconciliation completed after a REJECTED verdict moved w1 to Rework,
\* with a Task row and a ReviewDetail row of that work item flagged "True"
C27_Witness ==
    /\ ReconCompleted
    /\ "w1" \in DOMAIN db.work_item
    /\ db.work_item["w1"].turing_status = "Rework"
    /\ upper(db.work_item["w1"].client_status) = Text("REJECTED")
    /\ \E t \in TaskRows(db) :
          /\ t.colab_link = db.work_item["w1"].colab_link
          /\ t.is_delivered = "True"
          /\ \E r \in ReviewRows(db) :
                r.conversation_id = t.id /\ r.is_delivered = "True"

(***************************************************************************)
(* Values of the DataSyncLog rows.                                         *)
(***************************************************************************)
\* C28: every row of data_sync_log has a sync_status among started,
\* completed and failed, and a sync_type among initial, scheduled and manual.
C28_LogRowValues ==
    \A k \in DOMAIN db.data_sync_log :
        /\ db.data_sync_log[k].sync_status \in {"started", "completed", "failed"}
        /\ db.data_sync_log[k].sync_type \in {"initial", "scheduled", "manual"}

(***************************************************************************)
(* Values of turing_status.                                                *)
(***************************************************************************)
\* C29: every work item has turing_status Delivered or Rework; a work item
\* that enters the table enters it as Delivered with client_status Pending;
\* and the turing_status of a work item changes in no step but the commit
\* of a feedback batch.
C29_TuringStatusValues ==
    /\ [](\A w \in DOMAIN db.work_item :
             db.work_item[w].turing_status \in {"Delivered", "Rework"})
    /\ [][\A w \in DOMAIN db'.work_item :
             IF w \notin DOMAIN db.work_item
             THEN /\ op' = "insert_work_items"
                  /\ db'.work_item[w].turing_status = "Delivered"
                  /\ db'.work_item[w].client_status = Text("Pending")
             ELSE db'.work_item[w].turing_status # db.work_item[w].turing_status =>
                      /\ op = "update_work_items"
                      /\ pc = "uwi_loop"
                      /\ pc' = "idle"]_vars

\* w1 was moved to Rework by a verdict and w2 has since been inserted
C29_Witness ==
    /\ DOMAIN db.work_item = {"w1", "w2"}
    /\ db.work_item["w1"].turing_status = "Rework"
    /\ db.work_item["w2"].turing_status = "Delivered"
    /\ db.work_item["w2"].client_status = Text("Pending")
    /\ outcome.op = "insert_work_items"

(***************************************************************************)
(* The allow-list cache while the warehouse changes.                       *)
(***************************************************************************)
\* the enabled dimensions of the project change in the warehouse
upstream_change(enabled) ==
    /\ enabled # enabled_dimensions
    /\ enabled_dimensions' = enabled
    /\ UNCHANGED <<db, tx, pc, op, outcome, recon_status, reconLocals, syncLocals,
                   work_items, feedbackLocals, ingestLocals, sessionLocals,
                   allowed_quality_dimensions_cache, agg_fn, group_key,
                   query_results, row_index, allowed_dimensions, grouped_data>>

\* refresh_quality_dimensions_cache(): the cache is set to None and
\* _get_allowed_quality_dimensions(force_refresh=True) is called
refresh_quality_dimensions_cache(fault) ==
    /\ pc = "idle"
    /\ op' = "refresh_quality_dimensions_cache"
    /\ allowed_quality_dimensions_cache' =
           CacheAfterFetch(NotCached, enabled_dimensions, fault)
    /\ outcome' = [op |-> "refresh_quality_dimensions_cache", kind |-> "returned"]
    /\ UNCHANGED <<db, tx, pc, recon_status, reconLocals, syncLocals, work_items,
                   feedbackLocals, ingestLocals, sessionLocals, enabled_dimensions,
                   agg_fn, group_key, query_results, row_index, allowed_dimensions,
                   grouped_data>>

\* rows of the two dimension names
CacheRows(fn) == {AggRow(fn, shape) : shape \in {<<"Accuracy", 1, 3>>, <<"Clarity", 1, 3>>}}

NextCache ==
    \/ \E fn \in AggFunctions : aggregate_call(fn, None)
    \/ \E r \in CacheRows(agg_fn), fault \in BOOLEAN : aggregate_row(r, fault)
    \/ aggregate_return
    \/ \E enabled \in EnabledSets : upstream_change(enabled)
    \/ \E fault \in BOOLEAN : refresh_quality_dimensions_cache(fault)

SpecCache == InitAggregate /\ [][NextCache]_vars

\* C30: once the allow-list is cached, every iteration of an aggregation is
\* given the cached set and leaves the cache as it is, whatever the
\* warehouse holds or answers; the cached set is replaced in no step but a
\* refresh; and a set cached by a refresh is the set the warehouse holds at
\* that refresh.
C30_CacheUntilRefresh ==
    [][/\ (allowed_quality_dimensions_cache # NotCached
              /\ row_index' = row_index + 1) =>
             /\ allowed_dimensions'[row_index'] = allowed_quality_dimensions_cache[1]
             /\ allowed_quality_dimensions_cache' = allowed_quality_dimensions_cache
       /\ (allowed_quality_dimensions_cache # NotCached
              /\ allowed_quality_dimensions_cache' # allowed_quality_dimensions_cache) =>
             /\ pc = "idle"
             /\ op' = "refresh_quality_dimensions_cache"
       /\ (op' = "refresh_quality_dimensions_cache" /\ pc = "idle"
              /\ allowed_quality_dimensions_cache' # NotCached
              /\ allowed_quality_dimensions_cache' # allowed_quality_dimensions_cache) =>
             allowed_quality_dimensions_cache'[1] =
                 {name \in enabled_dimensions : Truthy(name)}]_vars

\* an aggregation has returned whose rows were all checked against a cached
\* set that the warehouse no longer holds
C30_Witness ==
    /\ AggReturned
    /\ Len(query_results) = 2
    /\ allowed_quality_dimensions_cache = <<{"Accuracy"}>>
    /\ enabled_dimensions = {"Accuracy", "Clarity", "Depth"}
    /\ allowed_dimensions = <<{"Accuracy"}, {"Accuracy"}>>
    /\ query_results[2].name = "Clarity"
    /\ outcome.value # <<>>

====
